---- MODULE Spec2Model ----
(***************************************************************************)
(* A model of the peakspend ml-service continuous-learning loop:           *)
(*   - the /predict handler and its rule-based fallback                    *)
(*     (app/api/inference.py),                                             *)
(*   - InferenceService (app/services/inference_service.py),               *)
(*   - the feedback ledger and its API (app/services/feedback_service.py,  *)
(*     app/api/feedback.py),                                               *)
(*   - the retraining decision (app/services/retraining_service.py).       *)
(*                                                                         *)
(* Numbers: a confidence or probability p in [0,1] is held as the integer  *)
(* 100*p (0.75 is 75); an acceptance rate is compared by cross             *)
(* multiplication, so no rounding enters the model.                        *)
(***************************************************************************)
EXTENDS Integers, Sequences, FiniteSets, TLC

VARIABLES
    pc,          \* /predict handler: "idle", "pad" (inside the padding loop), "returned"
    request,     \* /predict handler: the PredictionRequest being served
    events,      \* /predict handler: what happened while serving the request
    top_rules,   \* /predict handler: _cold_start_predict's working list
    response,    \* /predict handler: <<>> or <<PredictionResponse>>
    svc,         \* InferenceService: [model, load_result]
    svc_result,  \* InferenceService: <<>> or <<result of predict_with_explanation>>
    rec,         \* /recommend handler: <<>> or <<what the request did and got>>
    ledger,      \* FeedbackService: the records of data/feedback/<user>/feedback.jsonl, in file order
    next_id,     \* FeedbackService: the next fresh uuid
    last_call,   \* the last call made on a service object or endpoint, [op, args, result]
    now,         \* the clock, in days
    last_training, \* RetrainingService: training_metadata.json, <<>> or <<day>>
    training_cache, \* RetrainingService: training_data.csv, <<>> (absent) or <<rows>>
    model_store, \* MLflow: the stage of each version registered for the user's classifier, version 1 first
    jobs,        \* retraining API: the background tasks added so far, in the order added
    loop,        \* the server's event loop: NoJob or the index of the job running on it
    scorer,      \* ConfidenceScorer: [historical_accuracy: category -> <<>> or <<accuracy>>, updates]
    deriver,     \* FeatureEngineering: the attributes fit sets
    monitor      \* AccuracyTracker: the records of accuracy_metrics.jsonl, in file order

vars == <<pc, request, events, top_rules, response, svc, svc_result, rec,
          ledger, next_id, last_call, now, last_training,
          training_cache, model_store, jobs, loop, scorer, deriver, monitor>>

inferenceVars == <<pc, request, events, top_rules, response, svc, svc_result, rec>>
ledgerVars == <<ledger, next_id, last_call>>
retrainVars == <<now, last_training, training_cache, model_store, jobs, loop>>
serviceVars == <<scorer, deriver, monitor>>

None == "None"

NoCall == [op |-> "none"]

NoJob == 0

Min(a, b) == IF a < b THEN a ELSE b

Take(s, k) == SubSeq(s, 1, Min(k, Len(s)))

(***************************************************************************)
(* Python strings: str.lower() and the substring test `kw in s`.           *)
(***************************************************************************)
UpperAlpha == "ABCDEFGHIJKLMNOPQRSTUVWXYZ"
LowerAlpha == "abcdefghijklmnopqrstuvwxyz"

LowerChar(c) ==
    IF \E i \in 1..Len(UpperAlpha) : SubSeq(UpperAlpha, i, i) = c
    THEN LET i == CHOOSE j \in 1..Len(UpperAlpha) : SubSeq(UpperAlpha, j, j) = c
         IN SubSeq(LowerAlpha, i, i)
    ELSE c

RECURSIVE LowerFrom(_, _)
LowerFrom(s, i) ==
    IF i > Len(s) THEN "" ELSE LowerChar(SubSeq(s, i, i)) \o LowerFrom(s, i + 1)

lower(s) == LowerFrom(s, 1)

Contains(s, kw) ==
    \E i \in 1..(Len(s) - Len(kw) + 1) : SubSeq(s, i, i + Len(kw) - 1) = kw

AnyKeyword(kws, s) == \E i \in 1..Len(kws) : Contains(s, kws[i])

(***************************************************************************)
(* sorted(rules, key=confidence, reverse=True): Python's sort is stable,   *)
(* also with reverse=True, so equal confidences keep their list order.     *)
(***************************************************************************)
RECURSIVE InsertDesc(_, _)
InsertDesc(x, s) ==
    IF s = <<>> THEN <<x>>
    ELSE IF s[1].confidence >= x.confidence
         THEN <<s[1]>> \o InsertDesc(x, Tail(s))
         ELSE <<x>> \o s

RECURSIVE SortedDescFrom(_, _, _)
SortedDescFrom(rules, i, acc) ==
    IF i > Len(rules) THEN acc
    ELSE SortedDescFrom(rules, i + 1, InsertDesc(rules[i], acc))

sorted_by_confidence(rules) == SortedDescFrom(rules, 1, <<>>)

Rule(cat, conf) == [category |-> cat, confidence |-> conf]

Categories(rules) == {rules[i].category : i \in 1..Len(rules)}

\* the merchant names requests are drawn from
Merchants ==
    { "", "ACME Corp", "Starbucks Coffee", "Whole Foods Market", "Uber",
      "Amazon", "Shell Gas Market", "Burger Shop", "Las Vegas Grill" }

(***************************************************************************)
(* app/api/inference.py: _cold_start_predict, the rule table of /predict.  *)
(***************************************************************************)
ApiFoodKeywords == <<"restaurant", "cafe", "coffee", "pizza", "burger", "grill">>
ApiGroceryKeywords == <<"grocery", "market", "supermarket", "whole foods">>
ApiTransportKeywords == <<"uber", "lyft", "taxi", "parking", "gas", "fuel">>
ApiShoppingKeywords == <<"amazon", "store", "shop">>

ApiDefaultRules ==
    << Rule("Miscellaneous", 50), Rule("Shopping", 30), Rule("Food & Dining", 20) >>

ApiRules(merchant) ==
    LET merchant_lower == lower(merchant)
        matched ==
            (IF AnyKeyword(ApiFoodKeywords, merchant_lower)
               THEN <<Rule("Food & Dining", 75)>> ELSE <<>>)
         \o (IF AnyKeyword(ApiGroceryKeywords, merchant_lower)
               THEN <<Rule("Groceries", 80)>> ELSE <<>>)
         \o (IF AnyKeyword(ApiTransportKeywords, merchant_lower)
               THEN <<Rule("Transportation", 75)>> ELSE <<>>)
         \o (IF AnyKeyword(ApiShoppingKeywords, merchant_lower)
               THEN <<Rule("Shopping", 65)>> ELSE <<>>)
    IN IF matched = <<>> THEN ApiDefaultRules ELSE matched

\* rules_sorted, tabulated over the merchant names
ApiRulesSorted == [m \in Merchants |-> sorted_by_confidence(ApiRules(m))]

\* rules_sorted[:top_k], the list the padding loop starts from
ApiTopRules(merchant, top_k) == Take(ApiRulesSorted[merchant], top_k)

default_categories == <<"Groceries", "Transportation", "Entertainment", "Utilities">>

\* One pass of the while loop's body: the for loop appends the first default
\* category not yet in top_rules and breaks; when every default category is
\* already present the for loop ends without appending.
PadIteration(rules) ==
    LET missing == {i \in 1..Len(default_categories) :
                        default_categories[i] \notin Categories(rules)}
    IN IF missing = {} THEN rules
       ELSE LET first == CHOOSE i \in missing : \A j \in missing : i <= j
            IN Append(rules, Rule(default_categories[first], 20))

(***************************************************************************)
(* app/services/inference_service.py: InferenceService._cold_start_predict *)
(***************************************************************************)
SvcFoodKeywords == <<"restaurant", "cafe", "coffee", "pizza">>
SvcGroceryKeywords == <<"grocery", "market", "supermarket">>
SvcTransportKeywords == <<"uber", "lyft", "taxi", "parking">>

SvcDefaultRulesFaint == << Rule("Miscellaneous", 50), Rule("Shopping", 10) >>

SvcDefaultRules == << Rule("Miscellaneous", 50), Rule("Shopping", 30) >>

SvcRules(merchant) ==
    LET merchant_lower == lower(merchant)
        matched ==
            (IF AnyKeyword(SvcFoodKeywords, merchant_lower)
               THEN <<Rule("Food & Dining", 75)>> ELSE <<>>)
         \o (IF AnyKeyword(SvcGroceryKeywords, merchant_lower)
               THEN <<Rule("Groceries", 80)>> ELSE <<>>)
         \o (IF AnyKeyword(SvcTransportKeywords, merchant_lower)
               THEN <<Rule("Transportation", 75)>> ELSE <<>>)
    IN IF matched = <<>> THEN SvcDefaultRules ELSE matched

SvcColdStartEntry(rule) ==
    [category |-> rule.category,
     confidence |-> rule.confidence,
     confidence_level |-> IF rule.confidence >= 60 THEN "medium" ELSE "low"]

\* sorted(rules, ...), tabulated over the merchant names
SvcRulesSorted == [m \in Merchants |-> sorted_by_confidence(SvcRules(m))]

SvcColdStartPredict(merchant, top_k) ==
    LET rules_sorted == Take(SvcRulesSorted[merchant], top_k)
    IN [i \in 1..Len(rules_sorted) |-> SvcColdStartEntry(rules_sorted[i])]

(***************************************************************************)
(* app/models/categorizer.py: ExpenseCategorizer.predict on one sample.    *)
(* predict_proba is the library classifier; its output is an input here.   *)
(* np.argsort(probs) is any ordering of the indices by ascending           *)
(* probability (the default sort kind is not stable).                      *)
(***************************************************************************)
ModelClasses == <<"Food & Dining", "Groceries", "Shopping">>

ProbaVectors == { <<70, 20, 10>>, <<10, 30, 60>> }

IndexPermutations(n) ==
    {f \in [1..n -> 1..n] : \A i, j \in 1..n : i # j => f[i] # f[j]}

ArgsortOrders(probs) ==
    {f \in IndexPermutations(Len(probs)) :
        \A i \in 1..(Len(probs) - 1) : probs[f[i]] <= probs[f[i + 1]]}

\* np.argsort(probs)[-top_k:][::-1], then the result dictionaries
CategorizerPredict(probs, order, top_k) ==
    LET n == Len(order)
        kept == Min(top_k, n)
    IN [i \in 1..kept |->
           [category |-> ModelClasses[order[n + 1 - i]],
            confidence |-> probs[order[n + 1 - i]]]]

(***************************************************************************)
(* app/api/inference.py: predict_category, the /predict handler.           *)
(***************************************************************************)
MinTopK == 1
MaxTopK == 5
TopKs == MinTopK..MaxTopK

ModelVersions == {None, "0", "1"}
ModelStages == {"Production", "Staging"}

\* outcomes of ExpenseCategorizer.load_from_mlflow
LoadOutcomes == {"ok", "not_found", "error"}

\* where the model-based path raises, if anywhere
PredictRaises == {"none", "predict", "response"}

NoEvents == [load |-> None, fe_raised |-> FALSE, raised |-> "none"]

\* request.model_version or request.model_stage
ResponseModelVersion(version, stage) ==
    IF version = None \/ version = "0" THEN stage ELSE version

ModelResponse(predictions, version, stage) ==
    [predictions |-> predictions,
     cold_start |-> FALSE,
     model_version |-> ResponseModelVersion(version, stage)]

\* a fallback that answers with the handler's cold_start variable as first set
ColdStartResponseStaleFlag(rules, top_k) ==
    [predictions |-> Take(rules, top_k),
     cold_start |-> FALSE,
     model_version |-> None]

\* the two cold-start returns (lines 124-130 and 211-217)
ColdStartResponse(rules, top_k) ==
    [predictions |-> Take(rules, top_k),
     cold_start |-> TRUE,
     model_version |-> None]

\* load_from_mlflow raises: the inner except enters _cold_start_predict
PredictLoadFails(m, k, ver, stg, load) ==
    /\ pc = "idle"
    /\ load # "ok"
    /\ request' = [merchant |-> m, top_k |-> k, model_version |-> ver, model_stage |-> stg]
    /\ events' = [load |-> load, fe_raised |-> FALSE, raised |-> "none"]
    /\ top_rules' = ApiTopRules(m, k)
    /\ response' = <<>>
    /\ pc' = "pad"
    /\ UNCHANGED <<svc, svc_result, rec, ledgerVars, retrainVars, serviceVars>>

\* load_from_mlflow returns: the model-based path. A failure to load or apply
\* the feature pipeline (fe) is caught inside the path and replaced by basic
\* features; an exception of predict or of building the response reaches the
\* outer except, which enters _cold_start_predict.
PredictModelPath(m, k, ver, stg, fe, raised, probs, order) ==
    /\ pc = "idle"
    /\ request' = [merchant |-> m, top_k |-> k, model_version |-> ver, model_stage |-> stg]
    /\ events' = [load |-> "ok", fe_raised |-> fe, raised |-> raised]
    /\ \/ /\ raised = "none"
          /\ response' = <<ModelResponse(CategorizerPredict(probs, order, k), ver, stg)>>
          /\ top_rules' = <<>>
          /\ pc' = "returned"
       \/ /\ raised # "none"
          /\ response' = <<>>
          /\ top_rules' = ApiTopRules(m, k)
          /\ pc' = "pad"
    /\ UNCHANGED <<svc, svc_result, rec, ledgerVars, retrainVars, serviceVars>>

\* one iteration of `while len(top_rules) < top_k`
PadStep ==
    /\ pc = "pad"
    /\ Len(top_rules) < request.top_k
    /\ top_rules' = PadIteration(top_rules)
    /\ UNCHANGED <<pc, request, events, response, svc, svc_result, rec, ledgerVars, retrainVars, serviceVars>>

\* the loop condition is false: _cold_start_predict returns and the handler answers
PadReturn ==
    /\ pc = "pad"
    /\ Len(top_rules) >= request.top_k
    /\ response' = <<ColdStartResponse(top_rules, request.top_k)>>
    /\ pc' = "returned"
    /\ UNCHANGED <<request, events, top_rules, svc, svc_result, rec, ledgerVars, retrainVars, serviceVars>>

(***************************************************************************)
(* app/services/inference_service.py: InferenceService                     *)
(***************************************************************************)
\* __init__
NewService == [model |-> None, load_result |-> None]

NewInferenceService ==
    /\ svc' = NewService
    /\ svc_result' = <<>>
    /\ UNCHANGED <<pc, request, events, top_rules, response, rec, ledgerVars, retrainVars, serviceVars>>

\* load_model: self.model is assigned only when load_from_mlflow returns
LoadModelState(s, load) ==
    IF load = "ok"
    THEN [model |-> "loaded", load_result |-> "True"]
    ELSE [model |-> s.model, load_result |-> "False"]

LoadModel(load) ==
    /\ svc' = LoadModelState(svc, load)
    /\ UNCHANGED <<pc, request, events, top_rules, response, svc_result, rec, ledgerVars, retrainVars, serviceVars>>

SvcModelEntry(pred) ==
    [category |-> pred.category, raw_confidence |-> pred.confidence]

SvcModelResult(probs, order, top_k) ==
    LET predictions == CategorizerPredict(probs, order, top_k)
    IN [predictions |-> [i \in 1..Len(predictions) |-> SvcModelEntry(predictions[i])],
        cold_start |-> FALSE]

SvcColdStartResult(merchant, top_k) ==
    [predictions |-> SvcColdStartPredict(merchant, top_k),
     cold_start |-> TRUE]

\* predict_with_explanation on a service in state s: the model path when
\* self.model is set and nothing in it raises, the rule table otherwise
PredictResult(s, m, k, raised, probs, order) ==
    IF s.model # None /\ ~raised
    THEN SvcModelResult(probs, order, k)
    ELSE SvcColdStartResult(m, k)

PredictWithExplanation(m, k, raised, probs, order) ==
    /\ svc_result' =
          << [result |-> PredictResult(svc, m, k, raised, probs, order),
              top_k |-> k,
              model |-> svc.model,
              load_result |-> svc.load_result,
              raised |-> svc.model # None /\ raised] >>
    /\ UNCHANGED <<pc, request, events, top_rules, response, svc, rec, ledgerVars, retrainVars, serviceVars>>

(***************************************************************************)
(* app/api/recommendations.py: get_recommendations, up to the prediction   *)
(* result: a new InferenceService, one load_model, one                     *)
(* predict_with_explanation.                                               *)
(***************************************************************************)
GetRecommendations(m, k, load, raised, probs, order) ==
    LET inference_service == LoadModelState(NewService, load)
    IN /\ rec = <<>>
       /\ rec' = << [prediction_result |->
                        PredictResult(inference_service, m, k, raised, probs, order),
                     top_k |-> k,
                     load |-> load,
                     raised |-> inference_service.model # None /\ raised] >>
       /\ UNCHANGED <<pc, request, events, top_rules, response, svc, svc_result,
                      ledgerVars, retrainVars, serviceVars>>

NoRequest == [merchant |-> "", top_k |-> MinTopK, model_version |-> None, model_stage |-> "Production"]

InitInference ==
    /\ pc = "idle"
    /\ request = NoRequest
    /\ events = NoEvents
    /\ top_rules = <<>>
    /\ response = <<>>
    /\ svc = NewService
    /\ svc_result = <<>>
    /\ rec = <<>>

InitLedger ==
    /\ ledger = <<>>
    /\ next_id = 1
    /\ last_call = NoCall

InitRetrain ==
    /\ now = 0
    /\ last_training = <<>>
    /\ training_cache = <<>>
    /\ model_store = <<>>
    /\ jobs = <<>>
    /\ loop = NoJob

ScoredCategories == {"Shopping", "Groceries"}

\* ConfidenceScorer.__init__: no category has a historical accuracy.
\* updates counts the update_historical_accuracy calls made so far.
NewScorer == [historical_accuracy |-> [category \in ScoredCategories |-> <<>>], updates |-> 0]

\* FeatureEngineering.__init__.  An Optional attribute is <<>> (None) or
\* <<value>>; a dict is the set of its <<key, value>> pairs.  fit_calls,
\* completed_fits and last_fit record the fit calls made on the object
\* ("none", "ok" or "failed" for the most recent one).
NewDeriver ==
    [fitted |-> FALSE,
     merchant_vectorizer |-> <<>>,
     amount_scaler |-> <<>>,
     merchant_frequency |-> {},
     merchant_category_map |-> {},
     category_priors |-> {},
     user_amount_percentiles |-> <<>>,
     fit_calls |-> 0,
     completed_fits |-> 0,
     last_fit |-> "none"]

InitServices ==
    /\ scorer = NewScorer
    /\ deriver = NewDeriver
    /\ monitor = <<>>

Init == InitInference /\ InitLedger /\ InitRetrain /\ InitServices

\* The /predict handler, the /recommend handler and a service object share no
\* state, and a handler serves its request without yielding: a behaviour
\* follows one /predict request, one /recommend request, or a sequence of
\* calls on one InferenceService object.
PredictOnly == rec = <<>> /\ svc = NewService /\ svc_result = <<>>
RecommendOnly == pc = "idle" /\ svc = NewService /\ svc_result = <<>>
ServiceOnly == pc = "idle" /\ rec = <<>>

NextInference ==
    \/ /\ PredictOnly
       /\ pc = "idle"
       /\ \E m \in Merchants, k \in TopKs, ver \in ModelVersions, stg \in ModelStages,
             load \in LoadOutcomes :
               PredictLoadFails(m, k, ver, stg, load)
    \/ /\ PredictOnly
       /\ pc = "idle"
       /\ \E m \in Merchants, k \in TopKs, ver \in ModelVersions, stg \in ModelStages,
             fe \in BOOLEAN, raised \in PredictRaises, probs \in ProbaVectors :
               \E order \in ArgsortOrders(probs) :
                   PredictModelPath(m, k, ver, stg, fe, raised, probs, order)
    \/ PadStep
    \/ PadReturn
    \/ /\ RecommendOnly
       /\ rec = <<>>
       /\ \E m \in Merchants, k \in TopKs, load \in LoadOutcomes, raised \in BOOLEAN,
             probs \in ProbaVectors :
               \E order \in ArgsortOrders(probs) :
                   GetRecommendations(m, k, load, raised, probs, order)
    \/ /\ ServiceOnly
       /\ NewInferenceService
    \/ /\ ServiceOnly
       /\ \E load \in LoadOutcomes : LoadModel(load)
    \/ /\ ServiceOnly
       /\ \E m \in Merchants, k \in TopKs, raised \in BOOLEAN, probs \in ProbaVectors :
               \E order \in ArgsortOrders(probs) :
                   PredictWithExplanation(m, k, raised, probs, order)

SpecInference == Init /\ [][NextInference]_vars

(***************************************************************************)
(* C1 (as stated): whenever the model cannot be loaded or any exception is *)
(* raised inside the model-based path, the answer is cold_start=true with  *)
(* a non-empty rule-based list of at most top_k entries (and /predict      *)
(* answers model_version=null); cold_start=false is answered only when the *)
(* model-based path completed without any exception.                       *)
(***************************************************************************)
IsColdStartList(predictions, top_k) ==
    /\ Len(predictions) >= 1
    /\ Len(predictions) <= top_k

C2_ColdStartReturns == pc = "pad" => ENABLED <<PadStep \/ PadReturn>>_vars

(***************************************************************************)
(* C3: after a load_model call that returned False the service holds no    *)
(* model, and a predict_with_explanation made then is answered from the    *)
(* rule table with cold_start=true.                                        *)
(***************************************************************************)
C3_FailedLoadLeavesNoModel ==
    /\ svc.load_result = "False" => svc.model = None
    /\ svc_result # <<>> =>
          (svc_result[1].load_result = "False" => svc_result[1].result.cold_start)

(***************************************************************************)
(* The feedback ledger: app/services/feedback_service.py and the POST      *)
(* /feedback handler of app/api/feedback.py.                               *)
(*                                                                         *)
(* The ledger is the sequence of JSON lines of the user's feedback.jsonl;  *)
(* an absent file and an empty one are both <<>> (every reader treats them *)
(* alike).  uuid4 is a fresh number, and datetime.now() is the pair        *)
(* <<day, position in the order of the calls>>, so that two calls of the   *)
(* same day still have distinct, ordered timestamps.                       *)
(***************************************************************************)
MaxSubmits == 2

SubmittedTypes == {"accepted", "corrected", "rejected", "skipped"}
PredictedCategories == {"Shopping"}
ActualCategories == {None, "", "Shopping", "Transportation"}
Confidences == {50, 100}
MinConfidences == {0, 50, 80}
HistoryLimits == {1, 50}

FeedbackInputs ==
    [feedback_type : SubmittedTypes, predicted_category : PredictedCategories,
     actual_category : ActualCategories, confidence : Confidences]

TheExpense ==
    [user_id |-> "user-1", expense_id |-> "exp-1", merchant |-> "Uber", amount |-> 2550,
     date |-> "2024-01-15", notes |-> None, model_version |-> None, feedback_notes |-> None]

is_correct_unless_rejected(feedback_type) == feedback_type \in {"accepted", "corrected"}

is_correct(feedback_type) == feedback_type = "accepted"

actual_category_as_given(feedback_type, predicted_category, actual_category) == actual_category

stored_actual_category(feedback_type, predicted_category, actual_category) ==
    IF feedback_type = "accepted" THEN predicted_category ELSE actual_category

FeedbackRecordFor(expense, fb, feedback_id, timestamp) ==
    [feedback_id |-> feedback_id,
     user_id |-> expense.user_id,
     expense_id |-> expense.expense_id,
     timestamp |-> timestamp,
     merchant |-> expense.merchant,
     amount |-> expense.amount,
     date |-> expense.date,
     notes |-> expense.notes,
     predicted_category |-> fb.predicted_category,
     confidence |-> fb.confidence,
     model_version |-> expense.model_version,
     feedback_type |-> fb.feedback_type,
     actual_category |->
         stored_actual_category(fb.feedback_type, fb.predicted_category, fb.actual_category),
     is_correct |-> is_correct(fb.feedback_type),
     feedback_notes |-> expense.feedback_notes]

FeedbackRecord(fb, feedback_id, timestamp) ==
    FeedbackRecordFor(TheExpense, fb, feedback_id, timestamp)

RewriteFile(file, record) == <<record>>

AppendRecord(file, record) == Append(file, record)

\* FeedbackService.submit_feedback, called directly.
SubmitFeedback(fb) ==
    /\ ledger' = AppendRecord(ledger, FeedbackRecord(fb, next_id, <<now, next_id>>))
    /\ next_id' = next_id + 1
    /\ last_call' = [op |-> "submit_feedback", args |-> fb,
                     result |-> [raised |-> FALSE, feedback_id |-> next_id]]
    /\ UNCHANGED <<inferenceVars, retrainVars, serviceVars>>

valid_types == {"accepted", "corrected", "rejected"}

Falsy(x) == x = None \/ x = ""

ApiRejectsTypeOnly(req) == req.feedback_type \notin valid_types

ApiRejects(req) ==
    \/ req.feedback_type \notin valid_types
    \/ req.feedback_type = "corrected" /\ Falsy(req.actual_category)

\* POST /feedback.
ApiSubmitFeedback(req) ==
    /\ ApiRejects(req) \/ next_id <= MaxSubmits
    /\ IF ApiRejects(req)
       THEN /\ last_call' = [op |-> "POST /feedback", args |-> req, result |-> [status |-> 400]]
            /\ UNCHANGED <<ledger, next_id>>
       ELSE /\ ledger' = AppendRecord(ledger, FeedbackRecord(req, next_id, <<now, next_id>>))
            /\ next_id' = next_id + 1
            /\ last_call' = [op |-> "POST /feedback", args |-> req,
                             result |-> [status |-> 201, feedback_id |-> next_id,
                                         feedback_type |-> req.feedback_type]]
    /\ UNCHANGED <<inferenceVars, retrainVars, serviceVars>>

CountType(file, feedback_type) ==
    Len(SelectSeq(file, LAMBDA r : r.feedback_type = feedback_type))

\* accepted / total * 100, kept as the fraction num/den.
AcceptanceRate(accepted, total) ==
    IF total > 0 THEN [num |-> accepted * 100, den |-> total] ELSE [num |-> 0, den |-> 1]

\* The counts and the rate of get_feedback_stats; the averages, the
\* most-corrected pairs and the weekly trend it also reports are derived
\* from the same records and feed no decision.
get_feedback_stats(file) ==
    [total_predictions |-> Len(file),
     accepted_count |-> CountType(file, "accepted"),
     corrected_count |-> CountType(file, "corrected"),
     rejected_count |-> CountType(file, "rejected"),
     acceptance_rate |-> AcceptanceRate(CountType(file, "accepted"), Len(file))]

GetFeedbackStats ==
    /\ last_call' = [op |-> "get_feedback_stats", args |-> <<>>,
                     result |-> get_feedback_stats(ledger)]
    /\ UNCHANGED <<inferenceVars, ledger, next_id, retrainVars, serviceVars>>

Later(t1, t2) == t1[1] > t2[1] \/ (t1[1] = t2[1] /\ t1[2] > t2[2])

RECURSIVE InsertNewestFirst(_, _)
InsertNewestFirst(sorted, record) ==
    IF sorted = <<>> THEN <<record>>
    ELSE IF Later(record.timestamp, Head(sorted).timestamp) THEN <<record>> \o sorted
    ELSE <<Head(sorted)>> \o InsertNewestFirst(Tail(sorted), record)

\* list.sort(key=timestamp, reverse=True): stable, newest first.
RECURSIVE SortNewestFirst(_, _)
SortNewestFirst(file, n) ==
    IF n = 0 THEN <<>> ELSE InsertNewestFirst(SortNewestFirst(file, n - 1), file[n])

get_feedback_history(file, limit) == Take(SortNewestFirst(file, Len(file)), limit)

GetFeedbackHistory(limit) ==
    /\ last_call' = [op |-> "get_feedback_history", args |-> limit,
                     result |-> get_feedback_history(ledger, limit)]
    /\ UNCHANGED <<inferenceVars, ledger, next_id, retrainVars, serviceVars>>

TrainingFilterStrict(record, min_confidence) ==
    record.confidence > min_confidence /\ record.actual_category # None

TrainingFilter(record, min_confidence) ==
    record.confidence >= min_confidence /\ record.actual_category # None

TrainingSample(record) ==
    [merchant |-> record.merchant, amount |-> record.amount, date |-> record.date,
     notes |-> record.notes, category |-> record.actual_category,
     timestamp |-> record.timestamp, is_correct |-> record.is_correct]

get_training_data(file, min_confidence) ==
    LET kept == SelectSeq(file, LAMBDA r : TrainingFilter(r, min_confidence))
    IN  [i \in 1..Len(kept) |-> TrainingSample(kept[i])]

GetTrainingData(min_confidence) ==
    /\ last_call' = [op |-> "get_training_data", args |-> min_confidence,
                     result |-> get_training_data(ledger, min_confidence)]
    /\ UNCHANGED <<inferenceVars, ledger, next_id, retrainVars, serviceVars>>

ClearFeedback ==
    /\ ledger' = <<>>
    /\ last_call' = [op |-> "clear_feedback", args |-> <<>>, result |-> None]
    /\ UNCHANGED <<inferenceVars, next_id, retrainVars, serviceVars>>

(***************************************************************************)
(* The retraining decision: app/services/retraining_service.py.            *)
(***************************************************************************)
LowAcceptanceMinTotal == 20
LowAcceptancePercent == 70
SufficientCorrectionsCount == 10
ScheduledDays == 7
ScheduledMinTotal == 50
InitialMinTotal == 50
RetrainMinSamples == 20

RateBelow(rate, percent) == rate.num < percent * rate.den

LowAcceptance(stats) ==
    /\ stats.total_predictions >= LowAcceptanceMinTotal
    /\ RateBelow(stats.acceptance_rate, LowAcceptancePercent)

MoreThanSufficientCorrections(stats) == stats.corrected_count > SufficientCorrectionsCount

SufficientCorrections(stats) == stats.corrected_count >= SufficientCorrectionsCount

Scheduled(stats, last, today) ==
    /\ last # <<>>
    /\ today - last[1] >= ScheduledDays
    /\ stats.total_predictions >= ScheduledMinTotal

InitialThreshold(stats, last) ==
    stats.total_predictions >= InitialMinTotal /\ last = <<>>

should_retrain(file, last, today) ==
    LET stats == get_feedback_stats(file)
        low == LowAcceptance(stats)
        corrections == SufficientCorrections(stats)
        scheduled == Scheduled(stats, last, today)
        initial == InitialThreshold(stats, last)
    IN  [should_retrain |-> low \/ corrections \/ scheduled \/ initial,
         reasons |->
             (IF low THEN <<[text |-> "Low acceptance rate"]>> ELSE <<>>)
          \o (IF corrections THEN <<[text |-> "Sufficient corrections"]>> ELSE <<>>)
          \o (IF scheduled THEN <<[text |-> "Scheduled retraining"]>> ELSE <<>>)
          \o (IF initial THEN <<[text |-> "Initial training threshold reached"]>> ELSE <<>>),
         stats |-> stats,
         last_training_date |-> last]

ShouldRetrain ==
    /\ last_call' = [op |-> "should_retrain", args |-> <<>>,
                     result |-> should_retrain(ledger, last_training, now)]
    /\ UNCHANGED <<inferenceVars, ledger, next_id, retrainVars, serviceVars>>

\* retrain_model: too few samples is reported; with enough samples the
\* service's own FeatureEngineering object, which nothing has fitted, raises
\* in transform before anything is trained or written.
RetrainModel ==
    LET training_data == get_training_data(ledger, 0)
    IN  /\ last_call' =
              [op |-> "retrain_model", args |-> <<>>,
               result |->
                   IF Len(training_data) < RetrainMinSamples
                   THEN [raised |-> FALSE, success |-> FALSE,
                         samples_required |-> RetrainMinSamples,
                         samples_available |-> Len(training_data)]
                   ELSE [raised |-> TRUE, success |-> FALSE,
                         samples_required |-> RetrainMinSamples,
                         samples_available |-> Len(training_data)]]
        /\ UNCHANGED <<inferenceVars, ledger, next_id, retrainVars, serviceVars>>

(***************************************************************************)
(* Calls on one user's ledger, in any order.                               *)
(***************************************************************************)
NextLedger ==
    \/ /\ next_id <= MaxSubmits
       /\ \E fb \in FeedbackInputs : SubmitFeedback(fb)
    \/ \E req \in FeedbackInputs : ApiSubmitFeedback(req)
    \/ GetFeedbackStats
    \/ \E limit \in HistoryLimits : GetFeedbackHistory(limit)
    \/ \E min_confidence \in MinConfidences : GetTrainingData(min_confidence)
    \/ ShouldRetrain
    \/ RetrainModel
    \/ ClearFeedback

SpecLedger == Init /\ [][NextLedger]_vars

(***************************************************************************)
(* The retraining decision on ledgers of the sizes its thresholds speak    *)
(* of.  A ledger of a accepted, c corrected and r rejected records is what *)
(* a + c + r submissions leave behind; training_metadata.json is absent or *)
(* names day 0; the decision is asked for on any day up to MaxNow.         *)
(***************************************************************************)
MaxAccepted == 42
MaxCorrected == 11
MaxRejected == 1
MaxNow == 8

TypeAt(i, a, c) ==
    IF i <= a THEN "accepted" ELSE IF i <= a + c THEN "corrected" ELSE "rejected"

SubmissionAt(i, a, c) ==
    [feedback_type |-> TypeAt(i, a, c), predicted_category |-> "Shopping",
     actual_category |-> IF TypeAt(i, a, c) = "corrected" THEN "Transportation" ELSE None,
     confidence |-> 100]

RECURSIVE LedgerOf(_, _, _)
LedgerOf(n, a, c) ==
    IF n = 0 THEN <<>>
    ELSE AppendRecord(LedgerOf(n - 1, a, c), FeedbackRecord(SubmissionAt(n, a, c), n, <<0, n>>))

InitDecision ==
    /\ InitInference
    /\ \E a \in 0..MaxAccepted, c \in 0..MaxCorrected, r \in 0..MaxRejected :
           /\ ledger = LedgerOf(a + c + r, a, c)
           /\ next_id = a + c + r + 1
    /\ last_call = NoCall
    /\ now \in 0..MaxNow
    /\ last_training \in {<<>>, <<0>>}
    /\ training_cache = <<>>
    /\ model_store = <<>>
    /\ jobs = <<>>
    /\ loop = NoJob
    /\ InitServices

NextDecision ==
    \/ GetFeedbackStats
    \/ ShouldRetrain
    \/ RetrainModel

SpecDecision == InitDecision /\ [][NextDecision]_vars

IsPrefix(s, t) == Len(s) <= Len(t) /\ SubSeq(t, 1, Len(s)) = s

(***************************************************************************)
(* C4: the ledger is append-only.  A call other than clear_feedback leaves *)
(* every record already in the ledger where and as it was; a submission    *)
(* that is taken adds exactly one record, at the end, whose feedback_id no *)
(* other record has; stats, history, training-data extraction,             *)
(* should_retrain and retrain leave the ledger exactly as it was.          *)
(***************************************************************************)
C4_LedgerAppendOnly ==
    [][ /\ (last_call'.op # "clear_feedback" => IsPrefix(ledger, ledger'))
        /\ ( \/ last_call'.op = "submit_feedback"
             \/ last_call'.op = "POST /feedback" /\ last_call'.result.status = 201 )
           => /\ Len(ledger') = Len(ledger) + 1
              /\ \A i \in 1..Len(ledger) :
                     ledger'[i].feedback_id # ledger'[Len(ledger')].feedback_id
        /\ (last_call'.op \in {"get_feedback_stats", "get_feedback_history",
                               "get_training_data", "should_retrain", "retrain_model"}
               => ledger' = ledger)
      ]_vars

\* Two records are on file, with different ids, and a retrain has just run.
C4_Witness ==
    /\ Len(ledger) = 2
    /\ ledger[1].feedback_id # ledger[2].feedback_id
    /\ last_call.op = "retrain_model"

(***************************************************************************)
(* C5: every record on file has is_correct true exactly when its           *)
(* feedback_type is 'accepted'.                                            *)
(***************************************************************************)
C5_IsCorrectIffAccepted ==
    \A i \in 1..Len(ledger) :
        ledger[i].is_correct <=> (ledger[i].feedback_type = "accepted")

\* An accepted record, and a corrected one whose category equals the
\* predicted one, are both on file.
C5_Witness ==
    \E i, j \in 1..Len(ledger) :
        /\ ledger[i].feedback_type = "accepted"
        /\ ledger[j].feedback_type = "corrected"
        /\ ledger[j].actual_category = ledger[j].predicted_category

(***************************************************************************)
(* C6: a POST /feedback whose feedback_type is not one of accepted,        *)
(* corrected, rejected, or which is 'corrected' without an actual_category,*)
(* is answered with an error and leaves the ledger as it was.              *)
(***************************************************************************)
C6_ApiRejectsInvalid ==
    [][ ( /\ last_call'.op = "POST /feedback"
          /\ \/ last_call'.args.feedback_type \notin {"accepted", "corrected", "rejected"}
             \/ /\ last_call'.args.feedback_type = "corrected"
                /\ last_call'.args.actual_category = None )
        => (last_call'.result.status = 400 /\ ledger' = ledger)
      ]_vars

\* A 'corrected' request without actual_category has just been refused
\* while a record was on file.
C6_Witness ==
    /\ last_call.op = "POST /feedback"
    /\ last_call.args.feedback_type = "corrected"
    /\ last_call.args.actual_category = None
    /\ last_call.result.status = 400
    /\ Len(ledger) = 1

(***************************************************************************)
(* C7: FeedbackService.submit_feedback itself fails on a feedback_type     *)
(* outside accepted, corrected, rejected and on 'corrected' without an     *)
(* actual_category, so that no such record is ever on file.                *)
(***************************************************************************)
C7_ServiceRejectsInvalid ==
    /\ ( /\ last_call.op = "submit_feedback"
         /\ \/ last_call.args.feedback_type \notin {"accepted", "corrected", "rejected"}
            \/ /\ last_call.args.feedback_type = "corrected"
               /\ last_call.args.actual_category = None )
       => last_call.result.raised
    /\ \A i \in 1..Len(ledger) :
           /\ ledger[i].feedback_type \in {"accepted", "corrected", "rejected"}
           /\ ledger[i].feedback_type = "corrected" => ledger[i].actual_category # None

(***************************************************************************)
(* C8: every 'accepted' record on file has actual_category equal to its    *)
(* predicted_category, whatever the caller passed.                         *)
(***************************************************************************)
C8_AcceptedStoresPredicted ==
    \A i \in 1..Len(ledger) :
        ledger[i].feedback_type = "accepted"
            => ledger[i].actual_category = ledger[i].predicted_category

\* The last call submitted 'accepted' with another category, and its record
\* is the last on file.
C8_Witness ==
    /\ last_call.op \in {"submit_feedback", "POST /feedback"}
    /\ last_call.args.feedback_type = "accepted"
    /\ last_call.args.actual_category = "Transportation"
    /\ Len(ledger) > 0
    /\ ledger[Len(ledger)].feedback_id = last_call.result.feedback_id
    /\ ledger[Len(ledger)].actual_category = "Shopping"

(***************************************************************************)
(* C9: get_training_data(min_confidence) returns one sample for each       *)
(* record that has an actual_category and whose confidence is at least     *)
(* min_confidence, and no other; the sample's label is the record's        *)
(* actual_category.                                                        *)
(***************************************************************************)
C9_TrainingDataExact ==
    last_call.op = "get_training_data" =>
        LET samples == last_call.result
            wanted == {i \in 1..Len(ledger) :
                          /\ ledger[i].actual_category # None
                          /\ ledger[i].confidence >= last_call.args}
        IN  /\ Len(samples) = Cardinality(wanted)
            /\ \A i \in wanted :
                   \E j \in 1..Len(samples) :
                       /\ samples[j].timestamp = ledger[i].timestamp
                       /\ samples[j].category = ledger[i].actual_category
            /\ \A j \in 1..Len(samples) :
                   \E i \in wanted : samples[j].timestamp = ledger[i].timestamp

\* min_confidence 0.5: a correction to Transportation at exactly 0.5 is
\* kept and labelled Transportation, a record without a category is left out.
C9_Witness ==
    /\ last_call.op = "get_training_data"
    /\ last_call.args = 50
    /\ Len(ledger) = 2
    /\ ledger[1].feedback_type = "corrected"
    /\ ledger[1].confidence = 50
    /\ ledger[1].predicted_category = "Shopping"
    /\ ledger[1].actual_category = "Transportation"
    /\ ledger[2].actual_category = None
    /\ Len(last_call.result) = 1
    /\ last_call.result[1].category = "Transportation"

MaxJobs == 2
MaxJobAccepted == 10
MaxCached == 1

ExpenseAt(n) == [TheExpense EXCEPT !.expense_id = <<"exp", n>>, !.amount = 100 * n]

\* n submissions, each about an expense of its own.
RECURSIVE LedgerOfExpenses(_, _, _)
LedgerOfExpenses(n, a, c) ==
    IF n = 0 THEN <<>>
    ELSE AppendRecord(LedgerOfExpenses(n - 1, a, c),
                      FeedbackRecordFor(ExpenseAt(n), SubmissionAt(n, a, c), n, <<0, n>>))

\* A row of training_data.csv as read_csv returns it: the null notes of the
\* row that was written come back as NaN.
CachedRow(expense) ==
    [merchant |-> expense.merchant, amount |-> expense.amount, date |-> expense.date,
     notes |-> "NaN", category |-> "Shopping", timestamp |-> <<0, 0>>, is_correct |-> TRUE]

RECURSIVE CachedRows(_, _)
CachedRows(k, fresh) ==
    IF k = 0 THEN <<>>
    ELSE Append(CachedRows(k - 1, fresh),
                CachedRow(IF fresh THEN [TheExpense EXCEPT !.amount = 2550 + k] ELSE ExpenseAt(k)))

SampleKey(row) == <<row.merchant, row.amount, row.date>>

\* drop_duplicates(subset=[merchant, amount, date], keep='last')
RECURSIVE DropDuplicatesFrom(_, _)
DropDuplicatesFrom(rows, i) ==
    IF i > Len(rows) THEN <<>>
    ELSE IF \E j \in (i + 1)..Len(rows) : SampleKey(rows[j]) = SampleKey(rows[i])
         THEN DropDuplicatesFrom(rows, i + 1)
         ELSE <<rows[i]>> \o DropDuplicatesFrom(rows, i + 1)

MergeTrainingData(existing, training_data) ==
    IF existing # <<>> /\ Len(existing[1]) > 0
    THEN DropDuplicatesFrom(existing[1] \o training_data, 1)
    ELSE training_data

LoopAlwaysFree == TRUE

LoopFree == loop = NoJob

SkipsUnlessNeeded(decision, force) == ~decision.should_retrain

SkipsRetraining(decision, force) == ~decision.should_retrain /\ ~force

\* RetrainingService.__init__ builds a FeatureEngineering of its own.
QueuedJob == [pc |-> "queued", fitted |-> FALSE, training_data |-> <<>>, result |-> None]

TriggerRetraining(force) ==
    /\ LoopFree
    /\ LET decision == should_retrain(ledger, last_training, now)
       IN  IF SkipsRetraining(decision, force)
           THEN /\ last_call' = [op |-> "POST /retraining/trigger", args |-> force,
                                 result |-> [triggered |-> FALSE, status |-> "skipped"]]
                /\ UNCHANGED jobs
           ELSE /\ Len(jobs) < MaxJobs
                /\ jobs' = Append(jobs, QueuedJob)
                /\ last_call' = [op |-> "POST /retraining/trigger", args |-> force,
                                 result |-> [triggered |-> TRUE, status |-> "queued"]]
    /\ UNCHANGED <<inferenceVars, ledger, next_id, now, last_training, training_cache,
                   model_store, loop, serviceVars>>

\* _run_retraining starts; retrain_model extracts the ledger's samples and
\* gives up if they are fewer than RetrainMinSamples.
JobExtract(j) ==
    /\ LoopFree
    /\ jobs[j].pc = "queued"
    /\ LET training_data == get_training_data(ledger, 0)
       IN  IF Len(training_data) < RetrainMinSamples
           THEN /\ jobs' = [jobs EXCEPT ![j] =
                               [@ EXCEPT !.pc = "done",
                                         !.training_data = training_data,
                                         !.result = [raised |-> FALSE, success |-> FALSE,
                                                     samples_required |-> RetrainMinSamples,
                                                     samples_available |-> Len(training_data)]]]
                /\ UNCHANGED loop
           ELSE /\ jobs' = [jobs EXCEPT ![j] =
                               [@ EXCEPT !.pc = "extracted", !.training_data = training_data]]
                /\ loop' = j
    /\ UNCHANGED <<inferenceVars, ledgerVars, now, last_training, training_cache, model_store, serviceVars>>

\* retrain_model loads training_data.csv and merges it with the samples.
JobMerge(j) ==
    /\ loop = j
    /\ jobs[j].pc = "extracted"
    /\ jobs' = [jobs EXCEPT ![j] =
                   [@ EXCEPT !.pc = "merged",
                             !.training_data =
                                 MergeTrainingData(training_cache, jobs[j].training_data)]]
    /\ UNCHANGED <<inferenceVars, ledgerVars, now, last_training, training_cache,
                   model_store, loop, serviceVars>>

\* retrain_model transforms the merged set with the service's own
\* FeatureEngineering.  Unfitted, transform raises; fitted, training would
\* run and the call of ExpenseCategorizer.evaluate, a method the class does
\* not have, would raise.  _run_retraining catches and logs either.
JobTransform(j) ==
    /\ loop = j
    /\ jobs[j].pc = "merged"
    /\ jobs' = [jobs EXCEPT ![j] =
                   [@ EXCEPT !.pc = "done",
                             !.result = [raised |-> TRUE, success |-> FALSE,
                                         error |-> IF jobs[j].fitted THEN "AttributeError"
                                                   ELSE "Pipeline not fitted"]]]
    /\ loop' = NoJob
    /\ UNCHANGED <<inferenceVars, ledgerVars, now, last_training, training_cache, model_store, serviceVars>>

CacheChoices ==
    {<<>>} \cup {<<CachedRows(k, fresh)>> : k \in 1..MaxCached, fresh \in BOOLEAN}

InitJobs ==
    /\ InitInference
    /\ \E a \in 0..MaxJobAccepted, c \in 0..MaxCorrected :
           /\ ledger = LedgerOfExpenses(a + c, a, c)
           /\ next_id = a + c + 1
    /\ last_call = NoCall
    /\ now = 0
    /\ last_training \in {<<>>, <<0>>}
    /\ training_cache \in CacheChoices
    /\ model_store = <<>>
    /\ jobs = <<>>
    /\ loop = NoJob
    /\ InitServices

NextJobs ==
    \/ \E force \in BOOLEAN : TriggerRetraining(force)
    \/ \E j \in 1..Len(jobs) : JobExtract(j)
    \/ \E j \in 1..Len(jobs) : JobMerge(j)
    \/ \E j \in 1..Len(jobs) : JobTransform(j)

SpecJobs == InitJobs /\ [][NextJobs]_vars

(***************************************************************************)
(* C11: the trigger endpoint answers triggered=false, status 'skipped' and *)
(* adds no job exactly when force is false and should_retrain is false; in *)
(* every other case it adds exactly one job and answers triggered=true,    *)
(* status 'queued'.  (A step that leaves the jobs already added as they    *)
(* are is a step of the endpoint.)                                         *)
(***************************************************************************)
C11_TriggerSkipsIffNotNeeded ==
    [][ (last_call'.op = "POST /retraining/trigger" /\ IsPrefix(jobs, jobs'))
        => IF ~last_call'.args /\ ~should_retrain(ledger, last_training, now).should_retrain
           THEN /\ last_call'.result = [triggered |-> FALSE, status |-> "skipped"]
                /\ jobs' = jobs
           ELSE /\ last_call'.result = [triggered |-> TRUE, status |-> "queued"]
                /\ Len(jobs') = Len(jobs) + 1
                /\ jobs'[Len(jobs')].pc = "queued"
      ]_vars

\* A forced trigger has queued the only job although no trigger holds.
C11_Witness ==
    /\ last_call.op = "POST /retraining/trigger"
    /\ last_call.args
    /\ ~should_retrain(ledger, last_training, now).should_retrain
    /\ last_call.result.triggered
    /\ Len(jobs) = 1
    /\ jobs[1].pc = "queued"

(***************************************************************************)
(* C12: a retraining job for a user whose ledger yields at least 20        *)
(* samples ends in success: a classifier version is published, the cached  *)
(* training set is the merged set and the last-training timestamp is set.  *)
(***************************************************************************)
C12_RetrainCompletes ==
    \A j \in 1..Len(jobs) :
        ( /\ jobs[j].pc = "done"
          /\ Cardinality({i \in 1..Len(ledger) : ledger[i].actual_category # None}) >= 20 )
        => /\ jobs[j].result.success
           /\ model_store # <<>>
           /\ training_cache = <<jobs[j].training_data>>
           /\ last_training # <<>>

ProbaStep == 20

ClassProbas ==
    {<<a * ProbaStep, b * ProbaStep, 100 - (a + b) * ProbaStep>> :
        a \in 0..(100 \div ProbaStep), b \in 0..(100 \div ProbaStep)}
    \cap Seq(0..100)

Predict(probs, order, top_k) ==
    /\ last_call' = [op |-> "ExpenseCategorizer.predict",
                     args |-> [probs |-> probs, top_k |-> top_k],
                     result |-> CategorizerPredict(probs, order, top_k)]
    /\ UNCHANGED <<inferenceVars, ledger, next_id, retrainVars, serviceVars>>

NextClassifier ==
    \E probs \in ClassProbas, top_k \in TopKs :
        \E order \in ArgsortOrders(probs) : Predict(probs, order, top_k)

SpecClassifier == Init /\ [][NextClassifier]_vars

ClassIndex(category) == CHOOSE c \in 1..Len(ModelClasses) : ModelClasses[c] = category

(***************************************************************************)
(* C15: predict returns min(top_k, number of classes) entries, sorted by   *)
(* probability descending; of two entries with equal probability the one   *)
(* with the smaller class index comes first, and a class left out never    *)
(* has the probability of a kept class with a larger index.                *)
(***************************************************************************)
C15_PredictStableTopK ==
    last_call.op = "ExpenseCategorizer.predict" =>
        LET probs == last_call.args.probs
            res == last_call.result
            kept == {ClassIndex(res[i].category) : i \in 1..Len(res)}
        IN  /\ Len(res) = Min(last_call.args.top_k, Len(ModelClasses))
            /\ Cardinality(kept) = Len(res)
            /\ \A i \in 1..Len(res) : res[i].confidence = probs[ClassIndex(res[i].category)]
            /\ \A i, j \in 1..Len(res) :
                   i < j =>
                       \/ res[i].confidence > res[j].confidence
                       \/ /\ res[i].confidence = res[j].confidence
                          /\ ClassIndex(res[i].category) < ClassIndex(res[j].category)
            /\ \A c \in (1..Len(ModelClasses)) \ kept :
                   \A d \in kept : probs[c] < probs[d] \/ (probs[c] = probs[d] /\ d < c)

(***************************************************************************)
(* ConfidenceScorer: app/services/confidence_scorer.py.                    *)
(*                                                                         *)
(* Here a number x in [0,1] is held as the integer x * One, with One       *)
(* chosen so that every product and moving average below is an integer:    *)
(* the arithmetic is exact.                                                *)
(***************************************************************************)
MaxHistUpdates == 2

RECURSIVE Pow5(_)
Pow5(n) == IF n = 0 THEN 1 ELSE 5 * Pow5(n - 1)

One == 10000 * Pow5(MaxHistUpdates)

Percents == {0, 50, 100}

FromPercent(pct) == pct * (One \div 100)

Clip(x) == IF x < 0 THEN 0 ELSE IF x > One THEN One ELSE x

\* confidence * (1 - 0.2) + feature_quality * 0.2
BlendFeatureQuality(confidence, feature_quality) == (4 * confidence + feature_quality) \div 5

BlendHistoryEvenly(confidence, hist_accuracy) == (confidence + hist_accuracy) \div 2

\* confidence * (1 - 0.15) + hist_accuracy * 0.15
BlendHistory(confidence, hist_accuracy) == (17 * confidence + 3 * hist_accuracy) \div 20

_get_confidence_level(confidence) ==
    IF 10 * confidence >= 8 * One THEN "high"
    ELSE IF 10 * confidence >= 6 * One THEN "medium"
    ELSE "low"

score(historical_accuracy, model_probability, feature_quality, category) ==
    LET blended == BlendFeatureQuality(model_probability, feature_quality)
        adjusted == IF historical_accuracy[category] # <<>>
                    THEN BlendHistory(blended, historical_accuracy[category][1])
                    ELSE blended
        confidence == Clip(adjusted)
    IN  [confidence |-> confidence,
         confidence_level |-> _get_confidence_level(confidence),
         factors |-> [model_probability |-> model_probability,
                      feature_quality |-> feature_quality,
                      historical_accuracy |-> historical_accuracy[category]]]

Score(probability_pct, quality_pct, category) ==
    /\ last_call' = [op |-> "ConfidenceScorer.score",
                     args |-> [model_probability |-> probability_pct,
                               feature_quality |-> quality_pct, category |-> category],
                     result |-> score(scorer.historical_accuracy, FromPercent(probability_pct),
                                      FromPercent(quality_pct), category)]
    /\ UNCHANGED <<inferenceVars, ledger, next_id, retrainVars, scorer, deriver, monitor>>

\* alpha * accuracy + (1 - alpha) * old, alpha = 0.2
MovingAverage(old, accuracy) == (accuracy + 4 * old) \div 5

UpdateHistoricalAccuracy(category, accuracy_pct) ==
    /\ scorer.updates < MaxHistUpdates
    /\ scorer' =
          [historical_accuracy |->
               [scorer.historical_accuracy EXCEPT ![category] =
                    IF @ # <<>> THEN <<MovingAverage(@[1], FromPercent(accuracy_pct))>>
                    ELSE <<FromPercent(accuracy_pct)>>],
           updates |-> scorer.updates + 1]
    /\ last_call' = [op |-> "ConfidenceScorer.update_historical_accuracy",
                     args |-> [category |-> category, accuracy |-> accuracy_pct],
                     result |-> None]
    /\ UNCHANGED <<inferenceVars, ledger, next_id, retrainVars, deriver, monitor>>

NextScorer ==
    \/ \E p \in Percents, q \in Percents, category \in ScoredCategories : Score(p, q, category)
    \/ \E category \in ScoredCategories, a \in Percents : UpdateHistoricalAccuracy(category, a)

SpecScorer == Init /\ [][NextScorer]_vars

(***************************************************************************)
(* C16 (as stated): score returns a confidence within [0,1]; with          *)
(* raw_probability 1.0 and feature_quality 1.0 it is 1.0, with 0.0 and 0.0 *)
(* it is 0.0, after any update_historical_accuracy calls.                  *)
(***************************************************************************)
C16_ScoreExtremes ==
    last_call.op = "ConfidenceScorer.score" =>
        /\ 0 <= last_call.result.confidence
        /\ last_call.result.confidence <= One
        /\ (last_call.args.model_probability = 100 /\ last_call.args.feature_quality = 100)
               => last_call.result.confidence = One
        /\ (last_call.args.model_probability = 0 /\ last_call.args.feature_quality = 0)
               => last_call.result.confidence = 0

(***************************************************************************)
(* C16 (amended): score returns a confidence within [0,1] after any        *)
(* update_historical_accuracy calls.  With raw_probability 1.0 and         *)
(* feature_quality 1.0 the confidence is 1.0, and with 0.0 and 0.0 it is   *)
(* 0.0, when no historical accuracy is recorded for the category; when an  *)
(* accuracy h is recorded it is 0.85 + 0.15 h, respectively 0.15 h.        *)
(***************************************************************************)
C16_ScoreExtremesByHistory ==
    last_call.op = "ConfidenceScorer.score" =>
        LET recorded == scorer.historical_accuracy[last_call.args.category]
            confidence == last_call.result.confidence
            ones == last_call.args.model_probability = 100 /\ last_call.args.feature_quality = 100
            zeros == last_call.args.model_probability = 0 /\ last_call.args.feature_quality = 0
        IN  /\ 0 <= confidence
            /\ confidence <= One
            /\ (ones /\ recorded = <<>>) => confidence = One
            /\ (zeros /\ recorded = <<>>) => confidence = 0
            /\ (ones /\ recorded # <<>>) => 100 * confidence = 85 * One + 15 * recorded[1]
            /\ (zeros /\ recorded # <<>>) => 100 * confidence = 15 * recorded[1]

\* Shopping has the accuracy 0.5 on record (entered as 1.0, then averaged
\* with 0.0 and 0.5) and is scored with probability 1.0 and quality 1.0.
C16_Witness ==
    /\ last_call.op = "ConfidenceScorer.score"
    /\ last_call.args = [model_probability |-> 100, feature_quality |-> 100,
                         category |-> "Shopping"]
    /\ scorer.updates = 2
    /\ scorer.historical_accuracy["Shopping"] # <<>>
    /\ scorer.historical_accuracy["Shopping"][1] < One
    /\ last_call.result.confidence < One

(***************************************************************************)
(* FeatureEngineering: app/models/feature_engineering.py.                  *)
(*                                                                         *)
(* A merchant name is the sequence of its words.  A frame (DataFrame) is a *)
(* record of its column names and its columns; a frame given to transform  *)
(* holds one row.  A feature value that the code computes in floating      *)
(* point is kept as the term that determines it: <<"log1p", amount>>,      *)
(* <<"sin", hour, 24>>, and a TF-IDF weight as whether it is nonzero.      *)
(***************************************************************************)
MaxFits == 2

\* _normalize_merchant on one word: lower case, characters outside
\* [a-z0-9 ] removed.
NormalizeWord(word) ==
    CASE word = "Uber" -> "uber"
      [] word = "Whole" -> "whole"
      [] word = "Foods!" -> "foods"
      [] word = "A" -> "a"
      [] word = "&" -> ""
      [] OTHER -> word

RECURSIVE _normalize_merchant(_)
_normalize_merchant(merchant) ==
    IF merchant = <<>> THEN <<>>
    ELSE LET rest == _normalize_merchant(Tail(merchant))
             word == NormalizeWord(Head(merchant))
         IN  IF word = "" THEN rest ELSE <<word>> \o rest

\* TfidfVectorizer's default token_pattern keeps words of two or more
\* characters; ngram_range=(1, 2) takes single tokens and adjacent pairs.
IsToken(word) == Len(word) >= 2

Terms(normalized) ==
    LET tokens == SelectSeq(normalized, IsToken)
    IN  {<<tokens[i]>> : i \in 1..Len(tokens)}
            \cup {<<tokens[i], tokens[i + 1]>> : i \in 1..(Len(tokens) - 1)}

\* The terms the merchant names here can give, in the vectorizer's
\* (alphabetical) column order.
TermOrder == << <<"foods">>, <<"uber">>, <<"whole">>, <<"whole", "foods">> >>

Vocabulary(merchants) ==
    LET Occurs(term) == \E i \in 1..Len(merchants) : term \in Terms(merchants[i])
    IN  SelectSeq(TermOrder, Occurs)

CountOf(seq, x) == Cardinality({i \in 1..Len(seq) : seq[i] = x})

Range(seq) == {seq[i] : i \in 1..Len(seq)}

\* value_counts().to_dict()
ValueCounts(seq) == {<<x, CountOf(seq, x)>> : x \in Range(seq)}

\* dict.get(key, default)
DictGet(dict, key, default) ==
    IF \E pair \in dict : pair[1] = key
    THEN (CHOOSE pair \in dict : pair[1] = key)[2]
    ELSE default

RECURSIVE InsertSorted(_, _)
InsertSorted(sorted, x) ==
    IF sorted = <<>> THEN <<x>>
    ELSE IF x <= Head(sorted) THEN <<x>> \o sorted
    ELSE <<Head(sorted)>> \o InsertSorted(Tail(sorted), x)

RECURSIVE SortAmounts(_)
SortAmounts(amounts) ==
    IF amounts = <<>> THEN <<>>
    ELSE InsertSorted(SortAmounts(Tail(amounts)), Head(amounts))

\* Four times Series.quantile(quarters / 4), linear interpolation.
QuantileTimes4(amounts, quarters) ==
    LET sorted == SortAmounts(amounts)
        position == (Len(sorted) - 1) * quarters
        lower_index == position \div 4 + 1
        upper_index == IF lower_index < Len(sorted) THEN lower_index + 1 ELSE lower_index
    IN  4 * sorted[lower_index] + (position % 4) * (sorted[upper_index] - sorted[lower_index])

\* The most common category of each merchant.  The training frames here
\* hold each merchant once, so that the mode is the category of its row.
MerchantCategoryMap(merchants, categories) ==
    {<<merchants[i], categories[i]>> : i \in 1..Len(merchants)}

TrainingFrames ==
    {[columns |-> {"merchant", "amount", "date", "category"},
      merchant |-> << <<"Uber">>, <<"Whole", "Foods!">> >>,
      amount |-> <<10, 50>>,
      category |-> <<"Transportation", "Groceries">>],
     [columns |-> {"merchant", "amount", "date"},
      merchant |-> << <<"Uber">> >>,
      amount |-> <<30>>,
      category |-> <<>>],
     [columns |-> {"merchant", "amount", "date"},
      merchant |-> << <<"A">>, <<"&">> >>,
      amount |-> <<5, 7>>,
      category |-> <<>>]}

\* fit: the deriver it leaves and the exception it raises (None if none).
\* TfidfVectorizer.fit raises on an empty vocabulary, after the new
\* vectorizer has been assigned.
fit(self, df) ==
    LET merchant_normalized == [i \in 1..Len(df.merchant) |-> _normalize_merchant(df.merchant[i])]
        vocabulary == Vocabulary(merchant_normalized)
        called == [self EXCEPT !.fit_calls = @ + 1]
    IN  IF vocabulary = <<>>
        THEN [self |-> [called EXCEPT !.merchant_vectorizer = <<[fitted |-> FALSE, vocabulary |-> <<>>]>>,
                                      !.last_fit = "failed"],
              error |-> "ValueError: empty vocabulary"]
        ELSE [self |-> [called EXCEPT
                  !.merchant_vectorizer = <<[fitted |-> TRUE, vocabulary |-> vocabulary]>>,
                  !.amount_scaler = <<df.amount>>,
                  !.merchant_frequency = ValueCounts(merchant_normalized),
                  !.merchant_category_map =
                      IF "category" \in df.columns
                      THEN MerchantCategoryMap(merchant_normalized, df.category) ELSE @,
                  !.category_priors =
                      IF "category" \in df.columns
                      THEN {<<pair[1], <<pair[2], Len(df.category)>> >> : pair \in ValueCounts(df.category)}
                      ELSE @,
                  !.user_amount_percentiles =
                      <<[q25 |-> QuantileTimes4(df.amount, 1), q50 |-> QuantileTimes4(df.amount, 2),
                         q75 |-> QuantileTimes4(df.amount, 3)]>>,
                  !.fitted = TRUE,
                  !.completed_fits = @ + 1,
                  !.last_fit = "ok"],
              error |-> None]

Feature(name, value) == [name |-> name, value |-> value]

_extract_merchant_features(self, df) ==
    LET merchant_normalized == _normalize_merchant(df.merchant)
        vocabulary == self.merchant_vectorizer[1].vocabulary
    IN  [i \in 1..Len(vocabulary) |->
             Feature(<<"merchant_tfidf", i - 1>>,
                     <<"nonzero", IF vocabulary[i] \in Terms(merchant_normalized) THEN 1 ELSE 0>>)]
        \o <<Feature(<<"merchant_frequency">>,
                     <<"int", DictGet(self.merchant_frequency, merchant_normalized, 0)>>),
             Feature(<<"merchant_is_new">>,
                     <<"int", IF \E pair \in self.merchant_frequency : pair[1] = merchant_normalized
                              THEN 0 ELSE 1>>)>>

get_time_bin(hour) ==
    IF 6 <= hour /\ hour < 12 THEN 0
    ELSE IF 12 <= hour /\ hour < 18 THEN 1
    ELSE IF 18 <= hour /\ hour < 22 THEN 2
    ELSE 3

_extract_temporal_features(df) ==
    <<Feature(<<"hour_of_day">>, <<"int", df.date.hour>>),
      Feature(<<"day_of_week">>, <<"int", df.date.dayofweek>>),
      Feature(<<"day_of_month">>, <<"int", df.date.day>>),
      Feature(<<"month">>, <<"int", df.date.month>>),
      Feature(<<"is_weekend">>, <<"int", IF df.date.dayofweek >= 5 THEN 1 ELSE 0>>),
      Feature(<<"time_bin">>, <<"int", get_time_bin(df.date.hour)>>),
      Feature(<<"hour_sin">>, <<"sin", df.date.hour, 24>>),
      Feature(<<"hour_cos">>, <<"cos", df.date.hour, 24>>),
      Feature(<<"day_sin">>, <<"sin", df.date.dayofweek, 7>>),
      Feature(<<"day_cos">>, <<"cos", df.date.dayofweek, 7>>)>>

get_amount_bucket(amount) == IF amount < 20 THEN 0 ELSE IF amount < 100 THEN 1 ELSE 2

get_percentile_rank(percentiles, amount) ==
    IF 4 * amount < percentiles.q25 THEN 0
    ELSE IF 4 * amount < percentiles.q50 THEN 1
    ELSE IF 4 * amount < percentiles.q75 THEN 2
    ELSE 3

_extract_amount_features(self, df) ==
    <<Feature(<<"amount_log">>, <<"log1p", df.amount>>),
      Feature(<<"amount_normalized">>, <<"scaled", df.amount>> \o self.amount_scaler[1]),
      Feature(<<"amount_bucket">>, <<"int", get_amount_bucket(df.amount)>>),
      Feature(<<"amount_percentile_rank">>,
              <<"int", IF self.user_amount_percentiles # <<>>
                       THEN get_percentile_rank(self.user_amount_percentiles[1], df.amount)
                       ELSE 1>>)>>

_extract_historical_features(self, df) ==
    LET merchant_normalized == _normalize_merchant(df.merchant)
    IN  <<Feature(<<"historical_merchant_freq">>,
                  <<"int", DictGet(self.merchant_frequency, merchant_normalized, 0)>>),
          Feature(<<"merchant_common_category_encoded">>,
                  IF self.merchant_category_map # {}
                  THEN <<"hash", DictGet(self.merchant_category_map, merchant_normalized, "unknown")>>
                  ELSE <<"int", 0>>),
          Feature(<<"category_entropy">>,
                  IF self.category_priors # {}
                  THEN <<"entropy", self.category_priors>>
                  ELSE <<"int", 0>>)>>

NotFittedMessage == "ValueError: Pipeline not fitted. Call fit() first."

NeverNotFitted(self) == FALSE

NotFitted(self) == ~self.fitted

\* transform: the features it returns and the exception it raises (None if
\* none).  It assigns no attribute of self.
transform(self, df) ==
    IF NotFitted(self) THEN [features |-> <<>>, error |-> NotFittedMessage]
    ELSE IF "date" \notin df.columns THEN [features |-> <<>>, error |-> "KeyError: 'date'"]
    ELSE IF self.merchant_vectorizer = <<>>
    THEN [features |-> <<>>, error |-> "AttributeError: 'NoneType' object has no attribute 'transform'"]
    ELSE IF ~self.merchant_vectorizer[1].fitted
    THEN [features |-> <<>>, error |-> "NotFittedError"]
    ELSE [features |->
              _extract_merchant_features(self, df)
                  \o _extract_temporal_features(df)
                  \o _extract_amount_features(self, df)
                  \o (IF "user_expense_history" \in df.columns
                      THEN _extract_historical_features(self, df) ELSE <<>>),
          error |-> None]

FeatureNames(features) == [i \in 1..Len(features) |-> features[i].name]

SampleFrame ==
    [columns |-> {"merchant", "amount", "date"},
     merchant |-> <<"sample", "merchant">>,
     amount |-> 50,
     date |-> [hour |-> 9, dayofweek |-> 0, day |-> 2, month |-> 11]]

get_feature_names(self) ==
    IF ~self.fitted THEN [names |-> <<>>, error |-> NotFittedMessage]
    ELSE LET transformed == transform(self, SampleFrame)
         IN  [names |-> FeatureNames(transformed.features), error |-> transformed.error]

FrameColumns ==
    {{"merchant", "amount", "date"},
     {"merchant", "amount", "date", "user_expense_history"},
     {"merchant", "amount"}}

Dates ==
    {[hour |-> 9, dayofweek |-> 0, day |-> 2, month |-> 11],
     [hour |-> 20, dayofweek |-> 5, day |-> 7, month |-> 11]}

Frames ==
    [columns : FrameColumns,
     merchant : {<<"Uber">>, <<"Whole", "Foods!">>},
     amount : {10, 120},
     date : Dates]

ValidFrame(df) == {"merchant", "amount", "date"} \subseteq df.columns

Fit(df) ==
    /\ deriver.fit_calls < MaxFits
    /\ deriver' = fit(deriver, df).self
    /\ last_call' = [op |-> "FeatureEngineering.fit", args |-> df,
                     result |-> [error |-> fit(deriver, df).error]]
    /\ UNCHANGED <<inferenceVars, ledger, next_id, retrainVars, scorer, monitor>>

Transform(df) ==
    /\ last_call' = [op |-> "FeatureEngineering.transform", args |-> df,
                     result |-> transform(deriver, df)]
    /\ UNCHANGED <<inferenceVars, ledger, next_id, retrainVars, serviceVars>>

GetFeatureNames ==
    /\ last_call' = [op |-> "FeatureEngineering.get_feature_names", args |-> <<>>,
                     result |-> get_feature_names(deriver)]
    /\ UNCHANGED <<inferenceVars, ledger, next_id, retrainVars, serviceVars>>

NextDeriver ==
    \/ \E df \in TrainingFrames : Fit(df)
    \/ \E df \in Frames : Transform(df)
    \/ GetFeatureNames

SpecDeriver == Init /\ [][NextDeriver]_vars

C18_SameWidthAndOrder ==
    (last_call.op = "FeatureEngineering.transform" /\ last_call.result.error = None) =>
        FeatureNames(last_call.result.features) = get_feature_names(deriver).names

(***************************************************************************)
(* AccuracyTracker: app/services/accuracy_tracker.py.  The monitor's log   *)
(* is accuracy_metrics.jsonl; record_prediction is the one operation that  *)
(* writes it.  Neither the /feedback handler nor FeedbackService calls it. *)
(***************************************************************************)
MaxRecorded == 1

OptionalBools == {<<>>, <<TRUE>>, <<FALSE>>}

\* record_prediction: is_correct is derived when it is not given and the
\* actual category is truthy.
PredictionRecord(predicted_category, actual_category, confidence, model_version, correct, timestamp) ==
    [timestamp |-> timestamp,
     user_id |-> TheExpense.user_id,
     predicted_category |-> predicted_category,
     actual_category |-> actual_category,
     confidence |-> confidence,
     model_version |-> model_version,
     is_correct |-> IF correct = <<>> /\ ~Falsy(actual_category)
                    THEN <<predicted_category = actual_category>>
                    ELSE correct]

RecordPrediction(predicted_category, actual_category, confidence, correct) ==
    /\ Len(monitor) < MaxRecorded
    /\ monitor' = Append(monitor, PredictionRecord(predicted_category, actual_category, confidence,
                                                   TheExpense.model_version, correct, now))
    /\ last_call' = [op |-> "AccuracyTracker.record_prediction",
                     args |-> [predicted_category |-> predicted_category,
                               actual_category |-> actual_category,
                               confidence |-> confidence, is_correct |-> correct],
                     result |-> None]
    /\ UNCHANGED <<inferenceVars, ledger, next_id, retrainVars, scorer, deriver>>

NextMonitor ==
    \/ /\ next_id <= MaxSubmits
       /\ \E fb \in FeedbackInputs : SubmitFeedback(fb)
    \/ \E req \in FeedbackInputs : ApiSubmitFeedback(req)
    \/ \E predicted_category \in PredictedCategories, actual_category \in ActualCategories,
          confidence \in Confidences, correct \in OptionalBools :
           RecordPrediction(predicted_category, actual_category, confidence, correct)

SpecMonitor == Init /\ [][NextMonitor]_vars

(***************************************************************************)
(* C19: once feedback has been submitted, the monitor's log holds one      *)
(* outcome per ledger record, with the same predicted category, actual     *)
(* category, confidence, model version and correctness.                    *)
(***************************************************************************)
C19_MonitorMatchesLedger ==
    ledger # <<>> =>
        /\ Len(monitor) = Len(ledger)
        /\ \A i \in 1..Len(ledger) :
               /\ monitor[i].predicted_category = ledger[i].predicted_category
               /\ monitor[i].actual_category = ledger[i].actual_category
               /\ monitor[i].confidence = ledger[i].confidence
               /\ monitor[i].model_version = ledger[i].model_version
               /\ monitor[i].is_correct = <<ledger[i].is_correct>>

(***************************************************************************)
(* ErrorDetectionService._detect_amount_outlier:                           *)
(* app/services/error_detection.py.  Amounts are integers and the          *)
(* comparisons are made exactly, without division or square root:          *)
(* with n amounts of sum S and sum of squares Q, mean = S / n and          *)
(* std^2 = (n * Q - S^2) / n^2 (np.std is the population deviation).       *)
(***************************************************************************)
MaxHistoryLen == 3

OutlierCategories == {"Food", "Travel"}

HistoryRows == [category : OutlierCategories, amount : {10, 12}]

\* The history of the documented example, all of one category.
ExampleAmounts == <<10, 12, 15, 11, 13, 14, 12, 11, 10, 13>>

ExampleHistory == [i \in 1..Len(ExampleAmounts) |-> [category |-> "Food", amount |-> ExampleAmounts[i]]]

Histories ==
    {ExampleHistory} \cup UNION {[1..n -> HistoryRows] : n \in 0..MaxHistoryLen}

CheckedAmounts == {10, 12, 13, 31, 100}

RECURSIVE SumOf(_)
SumOf(amounts) == IF amounts = <<>> THEN 0 ELSE Head(amounts) + SumOf(Tail(amounts))

RECURSIVE SumOfSquares(_)
SumOfSquares(amounts) ==
    IF amounts = <<>> THEN 0 ELSE Head(amounts) * Head(amounts) + SumOfSquares(Tail(amounts))

\* n^2 * std^2
ScaledVariance(amounts) == Len(amounts) * SumOfSquares(amounts) - SumOf(amounts) * SumOf(amounts)

\* abs(amount - mean_amount) > 2 * std_amount
BeyondTwoStd(amount, amounts) ==
    LET deviation == Len(amounts) * amount - SumOf(amounts)
    IN  deviation * deviation > 4 * ScaledVariance(amounts)

\* 2 * np.median(amounts)
TwiceMedian(amounts) ==
    LET sorted == SortAmounts(amounts)
        n == Len(sorted)
    IN  IF n % 2 = 1 THEN 2 * sorted[(n + 1) \div 2]
        ELSE sorted[n \div 2] + sorted[n \div 2 + 1]

\* amount > 3 * median_amount
AboveThreeMedians(amount, amounts) == 2 * amount > 3 * TwiceMedian(amounts)

StdTakenPositive(amounts) == TRUE

\* std_amount > 0
StdPositive(amounts) == ScaledVariance(amounts) > 0

CategoryAmounts(history, category) ==
    LET category_expenses == SelectSeq(history, LAMBDA row : row.category = category)
    IN  [i \in 1..Len(category_expenses) |-> category_expenses[i].amount]

\* <<>> is None.
_detect_amount_outlier(amount, category, history) ==
    LET amounts == CategoryAmounts(history, category)
    IN  IF Len(amounts) < 3 THEN <<>>
        ELSE LET is_outlier ==
                     IF StdPositive(amounts) /\ BeyondTwoStd(amount, amounts) THEN TRUE
                     ELSE IF AboveThreeMedians(amount, amounts) THEN TRUE
                     ELSE FALSE
             IN  IF is_outlier
                 THEN <<[type |-> "amount_outlier", severity |-> "warning",
                         metadata |-> [user_average |-> <<SumOf(amounts), Len(amounts)>>,
                                       user_median |-> <<TwiceMedian(amounts), 2>>,
                                       current_amount |-> amount]]>>
                 ELSE <<>>

DetectAmountOutlier(amount, category, history) ==
    /\ last_call' = [op |-> "ErrorDetectionService._detect_amount_outlier",
                     args |-> [amount |-> amount, category |-> category, history |-> history],
                     result |-> _detect_amount_outlier(amount, category, history)]
    /\ UNCHANGED <<inferenceVars, ledger, next_id, retrainVars, serviceVars>>

NextOutlier ==
    \E amount \in CheckedAmounts, category \in OutlierCategories, history \in Histories :
        DetectAmountOutlier(amount, category, history)

SpecOutlier == Init /\ [][NextOutlier]_vars

OutlierCall == last_call.op = "ErrorDetectionService._detect_amount_outlier"

Flagged == last_call.result # <<>> /\ last_call.result[1].type = "amount_outlier"

CalledAmounts == CategoryAmounts(last_call.args.history, last_call.args.category)

ExampleHolds ==
    (last_call.args.history = ExampleHistory /\ last_call.args.category = "Food") =>
        /\ last_call.args.amount = 100 => Flagged
        /\ last_call.args.amount = 12 => ~Flagged

MaxDupHistory == 2

Chars(str) == {SubSeq(str, i, i) : i \in 1..Len(str)}

_fuzzy_match(str1, str2) ==
    IF str1 = "" \/ str2 = "" THEN <<0, 1>>
    ELSE IF str1 = str2 THEN <<1, 1>>
    ELSE IF Contains(str2, str1) \/ Contains(str1, str2) THEN <<9, 10>>
    ELSE <<Cardinality(Chars(str1) \cap Chars(str2)), Cardinality(Chars(str1) \cup Chars(str2))>>

\* merchant_match > 0.8
MerchantMatches(merchant, row_merchant) ==
    LET merchant_match == _fuzzy_match(lower(merchant), lower(row_merchant))
    IN  10 * merchant_match[1] > 8 * merchant_match[2]

Abs(x) == IF x < 0 THEN 0 - x ELSE x

Max(a, b) == IF a > b THEN a ELSE b

\* abs(amount - row_amount) / max(amount, row_amount) < 0.1
amount_match(amount, row_amount) == 10 * Abs(amount - row_amount) < Max(amount, row_amount)

DuplicateWindowDays == 7

\* history[history['date'] >= cutoff_date] when the history has a date
\* column, the whole history otherwise.
RecentRows(history, expense_date) ==
    IF history.has_date
    THEN SelectSeq(history.rows, LAMBDA row : row.date >= expense_date - DuplicateWindowDays)
    ELSE history.rows

\* <<>> is None; the first matching row is reported.
_detect_duplicate(merchant, amount, date, history) ==
    LET recent == RecentRows(history, date)
        Matches(row) == MerchantMatches(merchant, row.merchant) /\ amount_match(amount, row.amount)
        matching == SelectSeq(recent, Matches)
    IN  IF matching = <<>> THEN <<>>
        ELSE <<[type |-> "duplicate", severity |-> "warning",
                metadata |-> [similar_date |-> IF history.has_date THEN <<matching[1].date>> ELSE <<>>,
                              similar_amount |-> matching[1].amount,
                              similar_merchant |-> matching[1].merchant]]>>

DuplicateRows == [merchant : {"STARBUCKS Coffee", "Amazon"}, amount : {100, 91, 90}, date : {2, 3, 10, 12}]

DuplicateHistories ==
    [rows : UNION {[1..n -> DuplicateRows] : n \in 0..MaxDupHistory}, has_date : BOOLEAN]

CandidateDate == 10

DetectDuplicate(merchant, amount, date, history) ==
    /\ last_call' = [op |-> "ErrorDetectionService._detect_duplicate",
                     args |-> [merchant |-> merchant, amount |-> amount, date |-> date,
                               history |-> history],
                     result |-> _detect_duplicate(merchant, amount, date, history)]
    /\ UNCHANGED <<inferenceVars, ledger, next_id, retrainVars, serviceVars>>

\* The check keeps no state: a behaviour follows one call.
NextDuplicate ==
    /\ last_call = NoCall
    /\ \E merchant \in {"starbucks", "Amazon"}, history \in DuplicateHistories :
           DetectDuplicate(merchant, 100, CandidateDate, history)

SpecDuplicate == Init /\ [][NextDuplicate]_vars

(***************************************************************************)
(* C21: for a history with dates, the duplicate check emits a duplicate    *)
(* warning if and only if some record dated within the trailing 7 days     *)
(* from the candidate's date has merchant similarity > 0.8 and an amount   *)
(* within 10% of the candidate's; a record dated outside that window never *)
(* causes a warning.                                                       *)
(***************************************************************************)
C21_DuplicateIffInTrailingWindow ==
    (last_call.op = "ErrorDetectionService._detect_duplicate" /\ last_call.args.history.has_date) =>
        LET args == last_call.args
            InWindow(row) == args.date - 7 <= row.date /\ row.date <= args.date
        IN  (last_call.result # <<>>) <=>
                \E i \in 1..Len(args.history.rows) :
                    LET row == args.history.rows[i]
                    IN  /\ InWindow(row)
                        /\ MerchantMatches(args.merchant, row.merchant)
                        /\ amount_match(args.amount, row.amount)

(***************************************************************************)
(* Retraining jobs of a user who gave feedback on one expense repeatedly:  *)
(* every record of the ledger has the same merchant, amount and date.      *)
(***************************************************************************)
InitRepeatJobs ==
    /\ InitInference
    /\ \E a \in 9..MaxJobAccepted, c \in 10..MaxCorrected :
           /\ ledger = LedgerOf(a + c, a, c)
           /\ next_id = a + c + 1
    /\ last_call = NoCall
    /\ now = 0
    /\ last_training \in {<<>>, <<0>>}
    /\ training_cache \in CacheChoices
    /\ model_store = <<>>
    /\ jobs = <<>>
    /\ loop = NoJob
    /\ InitServices

SpecRepeatJobs == InitRepeatJobs /\ [][NextJobs]_vars

(***************************************************************************)
(* C22: the training set a retraining job goes on with after the merge     *)
(* holds at most one sample per (merchant, amount, date), and the sample    *)
(* kept for a key of the ledger is the ledger's most recent one with that  *)
(* key; with or without a cached set.                                      *)
(***************************************************************************)
C22_OneSamplePerKey ==
    \A j \in 1..Len(jobs) :
        jobs[j].pc = "merged" =>
            LET training_data == jobs[j].training_data
                extracted == get_training_data(ledger, 0)
            IN  /\ \A i, k \in 1..Len(training_data) :
                       SampleKey(training_data[i]) = SampleKey(training_data[k]) => i = k
                /\ \A i \in 1..Len(extracted) :
                       (\A k \in (i + 1)..Len(extracted) :
                            SampleKey(extracted[k]) # SampleKey(extracted[i]))
                       => \E m \in 1..Len(training_data) : training_data[m] = extracted[i]

(***************************************************************************)
(* The rule-based answers of /predict (response) and of InferenceService   *)
(* (svc_result, and rec for /recommend), under SpecInference.  Rule-table  *)
(* confidences are in hundredths.                                          *)
(***************************************************************************)
PredictRuleBased == pc = "returned" /\ (events.load # "ok" \/ events.raised # "none")

LevelByThresholds(confidence) ==
    IF confidence >= 80 THEN "high" ELSE IF confidence >= 60 THEN "medium" ELSE "low"

LevelsFollowThresholds(result) ==
    result.cold_start =>
        \A i \in 1..Len(result.predictions) :
            result.predictions[i].confidence_level
                = LevelByThresholds(result.predictions[i].confidence)

(***************************************************************************)
(* C23: every cold-start prediction returned by InferenceService, to       *)
(* /recommend or to a direct caller, has the confidence_level its          *)
(* confidence determines: 'high' from 0.8, 'medium' from 0.6, 'low' below. *)
(***************************************************************************)
C23_LevelFromConfidence ==
    /\ rec # <<>> => LevelsFollowThresholds(rec[1].prediction_result)
    /\ svc_result # <<>> => LevelsFollowThresholds(svc_result[1].result)

ConfidencesInRuleRange(predictions) ==
    \A i \in 1..Len(predictions) :
        50 <= predictions[i].confidence /\ predictions[i].confidence <= 80

(***************************************************************************)
(* C24: every prediction of the rule-based path, in /predict and in        *)
(* InferenceService, has a confidence between 0.50 and 0.80 inclusive, and *)
(* the response carrying it is tagged cold_start=true.                     *)
(***************************************************************************)
C24_RuleConfidenceInRange ==
    /\ PredictRuleBased =>
           (response[1].cold_start /\ ConfidencesInRuleRange(response[1].predictions))
    /\ (rec # <<>> /\ (rec[1].load # "ok" \/ rec[1].raised)) =>
           /\ rec[1].prediction_result.cold_start
           /\ ConfidencesInRuleRange(rec[1].prediction_result.predictions)

(***************************************************************************)
(* C24 (amended): every prediction of the rule-based path has one of the   *)
(* fixed confidences of its rule table, between 0.20 and 0.80 inclusive    *)
(* (0.20, 0.30, 0.50, 0.65, 0.75, 0.80 in /predict; 0.30, 0.50, 0.75, 0.80 *)
(* in InferenceService), and the response carrying it is tagged            *)
(* cold_start=true.                                                        *)
(***************************************************************************)
C24_RuleConfidenceFixed ==
    /\ PredictRuleBased =>
           /\ response[1].cold_start
           /\ \A i \in 1..Len(response[1].predictions) :
                  response[1].predictions[i].confidence \in {20, 30, 50, 65, 75, 80}
    /\ (rec # <<>> /\ (rec[1].load # "ok" \/ rec[1].raised)) =>
           /\ rec[1].prediction_result.cold_start
           /\ \A i \in 1..Len(rec[1].prediction_result.predictions) :
                  rec[1].prediction_result.predictions[i].confidence \in {30, 50, 75, 80}
    /\ (svc_result # <<>> /\ svc_result[1].result.cold_start) =>
           \A i \in 1..Len(svc_result[1].result.predictions) :
               svc_result[1].result.predictions[i].confidence \in {30, 50, 75, 80}

\* /recommend has answered from the rule table for a merchant no rule
\* matches: Miscellaneous at 0.50, then Shopping at 0.30.
C24_Witness ==
    /\ rec # <<>>
    /\ rec[1].load # "ok"
    /\ rec[1].prediction_result.cold_start
    /\ Len(rec[1].prediction_result.predictions) = 2
    /\ rec[1].prediction_result.predictions[2].confidence = 30

(***************************************************************************)
(* C29: the rule-based list /predict answers with is the list              *)
(* InferenceService._cold_start_predict returns for the same merchant and  *)
(* top_k: the same categories in the same order with the same confidences. *)
(***************************************************************************)
C29_ColdStartsAgree ==
    PredictRuleBased =>
        LET service == SvcColdStartPredict(request.merchant, request.top_k)
        IN  response[1].predictions
                = [i \in 1..Len(service) |-> Rule(service[i].category, service[i].confidence)]

(***************************************************************************)
(* ErrorDetectionService._detect_unusual_patterns.  A date is <<>> (None)  *)
(* or <<[hour, minute]>>, the time of day pd.to_datetime gives.            *)
(***************************************************************************)
LargeAmount == 500

_detect_unusual_patterns(amount, date, category) ==
    IF date = <<>> THEN <<>>
    ELSE LET hour == date[1].hour
         IN  (IF category = "Food & Dining" /\ (hour < 6 \/ hour > 23)
              THEN <<[type |-> "unusual_time", severity |-> "info"]>> ELSE <<>>)
             \o (IF amount > LargeAmount /\ 0 <= hour /\ hour < 6
                 THEN <<[type |-> "unusual_time", severity |-> "warning"]>> ELSE <<>>)

TimesOfDay == [hour : {0, 3, 5, 6, 12, 22, 23}, minute : {0, 30}]

DetectUnusualPatterns(amount, date, category) ==
    /\ last_call' = [op |-> "ErrorDetectionService._detect_unusual_patterns",
                     args |-> [amount |-> amount, date |-> date, category |-> category],
                     result |-> _detect_unusual_patterns(amount, date, category)]
    /\ UNCHANGED <<inferenceVars, ledger, next_id, retrainVars, serviceVars>>

NextUnusual ==
    \E amount \in {100, 500, 501, 600}, category \in {None, "Food & Dining", "Shopping"},
       date \in {<<>>} \cup {<<t>> : t \in TimesOfDay} :
        DetectUnusualPatterns(amount, date, category)

SpecUnusual == Init /\ [][NextUnusual]_vars

HasSeverity(errors, severity) == \E i \in 1..Len(errors) : errors[i].severity = severity

(***************************************************************************)
(* C25: for an expense with a date, the unusual-pattern check emits an     *)
(* info entry whenever the category is Food & Dining and the time of day   *)
(* is before 06:00 or after 23:00, and a warning entry whenever the amount *)
(* exceeds 500 and the time is in [00:00, 06:00); both can be emitted for  *)
(* one expense.                                                            *)
(***************************************************************************)
C25_UnusualTimeRules ==
    (last_call.op = "ErrorDetectionService._detect_unusual_patterns" /\ last_call.args.date # <<>>) =>
        LET minutes == 60 * last_call.args.date[1].hour + last_call.args.date[1].minute
        IN  /\ (last_call.args.category = "Food & Dining" /\ (minutes < 6 * 60 \/ minutes > 23 * 60))
                   => HasSeverity(last_call.result, "info")
            /\ (last_call.args.amount > 500 /\ minutes < 6 * 60)
                   => HasSeverity(last_call.result, "warning")

(***************************************************************************)
(* AccuracyTracker.get_accuracy_metrics and get_improvement_metrics, read  *)
(* from a monitor log as record_prediction writes it.  The log of a        *)
(* behaviour is one of MetricLogs: `unlabelled` outcomes without an actual *)
(* category, then `labelled` outcomes with one, of which the first `wrong` *)
(* are incorrect; one outcome a day, the last one today; confidences       *)
(* 0.5, 0.6, 0.8, 1.0 in turn.  Confidences are in hundredths.             *)
(***************************************************************************)
UnlabelledCounts == {0, 5, 15, 16}
LabelledCounts == {0, 4, 5, 19, 20, 21}

ConfidenceCycle == <<50, 60, 80, 100>>

MetricRecord(i, n, labelled, correct) ==
    PredictionRecord("Shopping", IF labelled THEN (IF correct THEN "Shopping" ELSE "Groceries") ELSE None,
                     ConfidenceCycle[(i % 4) + 1], TheExpense.model_version, <<>>, i - n)

MetricLog(unlabelled, labelled, wrong) ==
    [i \in 1..(unlabelled + labelled) |->
        MetricRecord(i, unlabelled + labelled, i > unlabelled, i > unlabelled + wrong)]

MetricLogs ==
    {MetricLog(u, f, w) : u \in UnlabelledCounts, f \in LabelledCounts, w \in {0, 2, 10, 21}}

\* df[df['actual_category'].notna()]
WithFeedback(records) == SelectSeq(records, LAMBDA r : r.actual_category # None)

\* len(df[df['is_correct'] == True])
CorrectCount(records) == Len(SelectSeq(records, LAMBDA r : r.is_correct = <<TRUE>>))

MinImprovementRecords == 20

\* bins = [0.0, 0.6, 0.8, 1.0]: bin i holds bins[i] <= confidence < bins[i + 1]
CalibrationBins == <<[range |-> "Low (0-60%)", low |-> 0, high |-> 60],
                     [range |-> "Medium (60-80%)", low |-> 60, high |-> 80],
                     [range |-> "High (80-100%)", low |-> 80, high |-> 100]>>

RECURSIVE CalibrationFrom(_, _)
CalibrationFrom(df, i) ==
    IF i > Len(CalibrationBins) THEN <<>>
    ELSE LET bin == CalibrationBins[i]
             bin_df == SelectSeq(df, LAMBDA r : r.confidence >= bin.low /\ r.confidence < bin.high)
         IN  (IF Len(bin_df) > 0
              THEN <<[range |-> bin.range, count |-> Len(bin_df), correct |-> CorrectCount(bin_df)]>>
              ELSE <<>>)
             \o CalibrationFrom(df, i + 1)

_calculate_confidence_calibration(df) == CalibrationFrom(df, 1)

_empty_metrics ==
    [period_days |-> 0, total_predictions |-> 0, correct_predictions |-> 0,
     confidence_calibration |-> <<>>]

get_accuracy_metrics(records, today, days) ==
    LET df == SelectSeq(records, LAMBDA r : r.timestamp >= today - days)
        predictions_with_feedback == WithFeedback(df)
    IN  IF Len(records) = 0 \/ Len(df) = 0 THEN _empty_metrics
        ELSE [period_days |-> days,
              total_predictions |-> Len(predictions_with_feedback),
              correct_predictions |-> CorrectCount(predictions_with_feedback),
              confidence_calibration |-> _calculate_confidence_calibration(predictions_with_feedback)]

\* improvement > 0.05, with accuracies correct / samples (0.0 for no samples)
ImprovementAbove5Pct(early_df, recent_df) ==
    LET le == Len(early_df)
        lr == Len(recent_df)
    IN  IF lr = 0 THEN FALSE
        ELSE IF le = 0 THEN 20 * CorrectCount(recent_df) > lr
        ELSE 20 * (CorrectCount(recent_df) * le - CorrectCount(early_df) * lr) > le * lr

\* An empty log is the file not yet written.
get_improvement_metrics(records) ==
    IF records = <<>>
    THEN [has_improvement |-> FALSE, message |-> "No data available", compared |-> FALSE]
    ELSE IF Len(records) < MinImprovementRecords
    THEN [has_improvement |-> FALSE, message |-> "Insufficient data for trend analysis",
          compared |-> FALSE]
    ELSE LET df == WithFeedback(records)
             midpoint == Len(df) \div 2
             early_df == SubSeq(df, 1, midpoint)
             recent_df == SubSeq(df, midpoint + 1, Len(df))
         IN  [has_improvement |-> ImprovementAbove5Pct(early_df, recent_df),
              message |-> IF ImprovementAbove5Pct(early_df, recent_df)
                          THEN "Model improved" ELSE "Model performance stable",
              compared |-> TRUE,
              early_period_samples |-> Len(early_df),
              recent_period_samples |-> Len(recent_df)]

GetAccuracyMetrics(days) ==
    /\ last_call' = [op |-> "AccuracyTracker.get_accuracy_metrics", args |-> days,
                     result |-> get_accuracy_metrics(monitor, now, days)]
    /\ UNCHANGED <<inferenceVars, ledger, next_id, retrainVars, serviceVars>>

GetImprovementMetrics ==
    /\ last_call' = [op |-> "AccuracyTracker.get_improvement_metrics", args |-> <<>>,
                     result |-> get_improvement_metrics(monitor)]
    /\ UNCHANGED <<inferenceVars, ledger, next_id, retrainVars, serviceVars>>

InitMetrics ==
    /\ InitInference /\ InitLedger /\ InitRetrain
    /\ scorer = NewScorer
    /\ deriver = NewDeriver
    /\ monitor \in MetricLogs

NextMetrics ==
    \/ \E days \in {7, 30} : GetAccuracyMetrics(days)
    \/ GetImprovementMetrics

SpecMetrics == InitMetrics /\ [][NextMetrics]_vars

RECURSIVE SumCounts(_)
SumCounts(bins) == IF bins = <<>> THEN 0 ELSE Head(bins).count + SumCounts(Tail(bins))

(***************************************************************************)
(* C26: in accuracy_metrics every feedback-bearing record of the window    *)
(* (all confidences here are within [0,1], some exactly 1.0) is counted in *)
(* exactly one calibration bin: the bin counts sum to total_predictions.   *)
(***************************************************************************)
C26_BinsPartition ==
    last_call.op = "AccuracyTracker.get_accuracy_metrics" =>
        SumCounts(last_call.result.confidence_calibration) = last_call.result.total_predictions

(***************************************************************************)
(* C27: improvement_metrics compares early with recent exactly when the    *)
(* log holds at least 20 feedback-bearing records, and otherwise reports   *)
(* has_improvement=false; when it compares, the halves are halves of the   *)
(* feedback-bearing records and has_improvement is true exactly when the   *)
(* recent accuracy exceeds the early one by more than 0.05.                *)
(***************************************************************************)
C27_ComparesIffTwentyLabelled ==
    last_call.op = "AccuracyTracker.get_improvement_metrics" =>
        LET labelled == WithFeedback(monitor)
            result == last_call.result
        IN  /\ result.compared <=> Len(labelled) >= 20
            /\ ~result.compared => ~result.has_improvement
            /\ result.compared =>
                   /\ result.early_period_samples + result.recent_period_samples = Len(labelled)
                   /\ result.early_period_samples = Len(labelled) \div 2

(***************************************************************************)
(* A user's ledger around the corrections threshold: 9 or 10 corrected     *)
(* records (and up to one accepted) to begin with, then submissions,       *)
(* reads, retrain runs and clear_feedback in any order.                    *)
(***************************************************************************)
MaxStableId == 12

StableInputs ==
    {[feedback_type |-> "corrected", predicted_category |-> "Shopping",
      actual_category |-> "Transportation", confidence |-> 100],
     [feedback_type |-> "accepted", predicted_category |-> "Shopping",
      actual_category |-> None, confidence |-> 100]}

InitStable ==
    /\ InitInference
    /\ \E a \in 0..1, c \in 9..10 :
           /\ ledger = LedgerOf(a + c, a, c)
           /\ next_id = a + c + 1
    /\ last_call = NoCall
    /\ now = 0
    /\ last_training \in {<<>>, <<0>>}
    /\ training_cache = <<>>
    /\ model_store = <<>>
    /\ jobs = <<>>
    /\ loop = NoJob
    /\ InitServices

NextStable ==
    \/ /\ next_id <= MaxStableId
       /\ \E fb \in StableInputs : SubmitFeedback(fb)
    \/ GetFeedbackStats
    \/ ShouldRetrain
    \/ RetrainModel
    \/ ClearFeedback

SpecStable == InitStable /\ [][NextStable]_vars

CorrectedRecords(file) == Cardinality({i \in 1..Len(file) : file[i].feedback_type = "corrected"})

MaxVersions == 2

MinSamplesForTraining == 50

TrainingSizes == {MinSamplesForTraining - 1, MinSamplesForTraining}

RegistryStages == {"None", "Staging", "Production", "Archived"}

\* ExpenseCategorizer.train on a store: below the minimum it returns
\* insufficient_data before anything is logged; the library's fit may raise;
\* otherwise log_model registers a new version, which the registry creates in
\* stage "None".
train(store, samples, raises) ==
    IF samples < MinSamplesForTraining
    THEN [store |-> store, success |-> FALSE, error |-> "insufficient_data"]
    ELSE IF raises
         THEN [store |-> store, success |-> FALSE, error |-> "raised"]
         ELSE [store |-> Append(store, "None"), success |-> TRUE, error |-> None]

\* the /train handler: 201 on success, 400 on insufficient data, 500 on an exception
TrainStatus(result) ==
    IF result.success THEN 201
    ELSE IF result.error = "insufficient_data" THEN 400 ELSE 500

TrainModel(samples, raises) ==
    LET result == train(model_store, samples, raises)
    IN /\ pc = "idle"
       /\ Len(model_store) < MaxVersions
       /\ model_store' = result.store
       /\ last_call' = [op |-> "train_model", args |-> samples,
                        result |-> [status |-> TrainStatus(result), success |-> result.success]]
       /\ UNCHANGED <<inferenceVars, ledger, next_id, now, last_training, training_cache,
                      jobs, loop, serviceVars>>

\* MLflowTracker.transition_model_stage; no handler, task or service calls it
TransitionModelStage(version, stage) ==
    /\ pc = "idle"
    /\ version \in 1..Len(model_store)
    /\ model_store[version] # stage
    /\ model_store' = [model_store EXCEPT ![version] = stage]
    /\ last_call' = [op |-> "transition_model_stage", args |-> <<version, stage>>, result |-> None]
    /\ UNCHANGED <<inferenceVars, ledger, next_id, now, last_training, training_cache,
                   jobs, loop, serviceVars>>

VersionNumber(version) == IF version = "0" THEN 0 ELSE 1

\* load_from_mlflow: models:/<name>/<version> when a version is given,
\* models:/<name>/<stage> otherwise; the load raises when the registry holds
\* no such version, or no version in that stage
load_from_mlflow(store, version, stage) ==
    IF version # None
    THEN IF VersionNumber(version) \in 1..Len(store) THEN "ok" ELSE "not_found"
    ELSE IF \E v \in 1..Len(store) : store[v] = stage THEN "ok" ELSE "not_found"

PublishMerchants == {"", "Amazon"}
PublishTopKs == {1, 4}

\* /predict against the registry.  Nothing writes
\* /tmp/fe_pipeline_user_<id>.pkl (FeatureEngineering.save has no caller), so
\* FeatureEngineering.load raises and the handler goes on with basic features.
PredictLoaded ==
    \E m \in PublishMerchants, k \in PublishTopKs, ver \in ModelVersions, stg \in ModelStages,
       raised \in PredictRaises, probs \in ProbaVectors :
        /\ load_from_mlflow(model_store, ver, stg) = "ok"
        /\ \E order \in ArgsortOrders(probs) :
               PredictModelPath(m, k, ver, stg, TRUE, raised, probs, order)

PredictNotLoaded ==
    \E m \in PublishMerchants, k \in PublishTopKs, ver \in ModelVersions, stg \in ModelStages :
        /\ load_from_mlflow(model_store, ver, stg) # "ok"
        /\ PredictLoadFails(m, k, ver, stg, load_from_mlflow(model_store, ver, stg))

NextPublish ==
    \/ \E samples \in TrainingSizes, raises \in BOOLEAN : TrainModel(samples, raises)
    \/ \E version \in 1..MaxVersions, stage \in RegistryStages : TransitionModelStage(version, stage)
    \/ PredictLoaded
    \/ PredictNotLoaded
    \/ PadStep
    \/ PadReturn

SpecPublish == Init /\ [][NextPublish]_vars

(***************************************************************************)
(* C30: once a training run has succeeded and registered its version, a    *)
(* later /predict with the default stage 'Production' and no explicit      *)
(* version loads the user's trained model and fitted feature state, and    *)
(* (when the model path does not raise) answers cold_start=false.          *)
(***************************************************************************)
C30_PublishedModelServes ==
    ( /\ pc = "returned"
      /\ request.model_version = None
      /\ request.model_stage = "Production"
      /\ model_store # <<>> )
    => /\ events.load = "ok"
       /\ ~events.fe_raised
       /\ events.raised = "none" => response[1].cold_start = FALSE

====
